---------------------------- MODULE Spec2Model ----------------------------
(***************************************************************************)
(* A model of the ACP client engine (acp-python):                          *)
(*   - virtuals_acp/job.py        the Job operations and their guards      *)
(*   - virtuals_acp/client.py     the client functions the operations call *)
(*   - virtuals_acp/contract_manager.py  submit + confirm with retries     *)
(*   - virtuals_acp/memo.py, utils.py, models.py  memo and payload decode  *)
(*   - examples/acp_base/external_evaluation/seller.py  the dispatcher     *)
(*                                                                         *)
(* Three specifications share the variables:                               *)
(*   SpecJob       one Job operation on any job snapshot, relay reliable   *)
(*   SpecTx        one Job operation on a well-formed job, relay faulty    *)
(*   SpecDispatch  producers (on_new_task) against the intake loop         *)
(***************************************************************************)
EXTENDS Integers, Sequences, FiniteSets, TLC

VARIABLES
    job,        \* the ACPJob snapshot the operation is called on
    pc,         \* "idle" | "run" | "done": position of the one operation call
    op,         \* the operation called and its scalar arguments
    plan,       \* contract-manager calls and sleeps the client function has left
    txpc,       \* "submit" | "confirm": position inside the current pipeline call
    retries,    \* the `retries` local of the current pipeline call
    log,        \* every submit, confirm and sleep made so far, in order
    result,     \* the value the operation returns
    outcome,    \* "none" | "returned" | "ValueError" | "Exception"
    use_thread_lock, \* the dispatcher's flag
    job_queue,  \* deque of queue entries
    job_event,  \* threading.Event: TRUE when set
    lock,       \* holder of job_queue_lock: Free, ByWorker or ByProducer(p)
    ppc,        \* each producer's position in on_new_task
    wpc,        \* the intake loop's position in job_worker
    popped,     \* entries the intake loop has popped, in order
    ipc,        \* position of the one initiate_job call
    attempt,    \* the `attempt` index of initiate_job's confirm loop
    relay,      \* what the relay holds for the createJob user operation
    wire,       \* the content string a memo is constructed from
    built,      \* the memo constructed from it
    merr,       \* the exception the construction raised, "" for none
    read,       \* the value the last get_data_as of the memo returned
    read_as,    \* the model that get_data_as was called with, "-" before
    ptype,      \* the value payload_type returned, "unread" before
    dispatcher, \* which job_worker the dispatch runtime runs
    kind,       \* the kind of event each producer pushes
    handled,    \* how many processing runs each entry was handed to
    run_state,  \* the state of each entry's processing run
    pass_start  \* the number of entries popped before the current drain pass

jobVars == <<job, pc, op, plan, txpc, retries, log, result, outcome>>
dispVars == <<use_thread_lock, job_queue, job_event, lock, ppc, wpc, popped>>
initVars == <<ipc, attempt, relay>>
memoVars == <<wire, built, merr, read, read_as, ptype>>
runVars == <<dispatcher, kind, handled, run_state, pass_start>>
vars == <<job, pc, op, plan, txpc, retries, log, result, outcome,
          use_thread_lock, job_queue, job_event, lock, ppc, wpc, popped,
          ipc, attempt, relay, wire, built, merr, read, read_as, ptype,
          dispatcher, kind, handled, run_state, pass_start>>

-----------------------------------------------------------------------------
(* Bounds of the model *)

\* longest memo sequence of a job snapshot
MaxMemos == 2
\* longest list of positions passed to open_position / respond_close_job
MaxPositions == 2
\* number of concurrent on_new_task producers
NumProducers == 3
\* number of entries the intake loop pops before a behaviour is cut off
MaxPops == 5
\* number of new-task events pushed to the dispatch runtime with processing
NumEvents == 2

-----------------------------------------------------------------------------
(* models.py: enumerations *)

ACPJobPhase ==
    {"REQUEST", "NEGOTIATION", "TRANSACTION", "EVALUATION", "COMPLETED",
     "REJECTED", "EXPIRED"}

MemoType ==
    {"MESSAGE", "CONTEXT_URL", "IMAGE_URL", "VOICE_URL", "OBJECT_URL", "TXHASH",
     "PAYABLE_REQUEST", "PAYABLE_TRANSFER", "PAYABLE_TRANSFER_ESCROW"}

PayloadType ==
    {"fund_response", "open_position", "close_position",
     "close_partial_position", "position_fulfilled", "close_job_and_withdraw",
     "unfulfilled_position"}

\* The payload record classes of models.py.  A record is abstracted to the
\* class whose fields it carries and its amount.
PayloadShapes ==
    {"OpenPositionPayload", "ClosePositionPayload", "RequestClosePositionPayload",
     "PositionFulfilledPayload", "UnfulfilledPositionPayload",
     "CloseJobAndWithdrawPayload"}

\* amounts carried by single payload records and passed to pay
Amounts == {0, 10}
\* amounts of the records in a list of positions
PositionAmounts == {10}
\* fee_amount passed to open_position
Fees == {1}

Rec(shape, amount) == [shape |-> shape, amount |-> amount]

-----------------------------------------------------------------------------
(* memo content and its decoding: memo.py, utils.py, models.py *)

\* A content string is abstracted by what the decoders can tell apart:
\*   "text"      not JSON at all
\*   "json"      JSON that carries no {type, data} of a known payload type
\*   "envelope"  JSON {type: t, data: d}, d one record or a list of records
Text == [form |-> "text", type |-> "-", list |-> FALSE, items |-> <<>>]
Json == [form |-> "json", type |-> "-", list |-> FALSE, items |-> <<>>]
Envelope(t, isList, items) ==
    [form |-> "envelope", type |-> t, list |-> isList, items |-> items]

\* the value None of a failed decode
NoPayload == [type |-> "-", list |-> FALSE, items |-> <<>>, ok |-> FALSE]

\* model.model_validate(record): the record carries the required fields of
\* `model`; extra fields are ignored, so a ClosePositionPayload record
\* {positionId, amount} also validates as RequestClosePositionPayload
\* {positionId}.  "Dict" accepts every JSON object, "scalar" data is none.
Validates(rec, model) ==
    \/ rec.shape = model
    \/ model = "Dict" /\ rec.shape # "scalar"
    \/ model = "RequestClosePositionPayload" /\ rec.shape = "ClosePositionPayload"

\* try_validate_model(data, model): the record, or None
try_validate_model(rec, model) ==
    IF Validates(rec, model) THEN <<rec>> ELSE <<>>

\* try_parse_json_model(content, GenericPayload[model]): the envelope when the
\* content is JSON {type, data} with a known type and every record of data
\* validates as `model`, None otherwise (never raises)
try_parse_json_model(content, model) ==
    IF /\ content.form = "envelope"
       /\ content.type \in PayloadType
       /\ \A i \in DOMAIN content.items : Validates(content.items[i], model)
    THEN [type |-> content.type, list |-> content.list,
          items |-> content.items, ok |-> TRUE]
    ELSE NoPayload

\* ACPMemo.__init__: structured_content = try_parse_json_model(content, GenericPayload[Dict])
structured_content(memo) == try_parse_json_model(memo.content, "Dict")

\* json.dumps(payload.model_dump()) of GenericPayload(type=t, data=d)
Encode(t, isList, items) == Envelope(t, isList, items)

ACPMemo(id, type, next_phase, content) ==
    [type |-> type, content |-> content, id |-> id, next_phase |-> next_phase]

\* no memo constructed yet
NoMemo == ACPMemo(0, "-", "-", Text)

\* ACPMemo.payload_type: structured_content.type, None ("-") without an envelope
ACPMemo_payload_type(m) ==
    IF structured_content(m).ok THEN structured_content(m).type ELSE "-"

\* the value None of a typed read
NoData == [form |-> "none", items |-> <<>>]

\* what get_data_as returns for one record of data: the record, or None
DataOfRecord(rec, model) ==
    IF Validates(rec, model) THEN [form |-> "one", items |-> <<rec>>] ELSE NoData

\* ACPMemo.get_data_as(model): None without an envelope; for a list the
\* entries validated one by one (<<>> for an entry that fails), `validated[0]
\* if len(validated) == 1 else validated`; for one record try_validate_model
get_data_as(m, model) ==
    LET sc == structured_content(m) IN
    IF ~sc.ok THEN NoData
    ELSE IF sc.list
         THEN IF Len(sc.items) = 1 THEN DataOfRecord(sc.items[1], model)
              ELSE [form |-> "list",
                    items |-> [i \in DOMAIN sc.items |->
                                  try_validate_model(sc.items[i], model)]]
         ELSE DataOfRecord(sc.items[1], model)

-----------------------------------------------------------------------------
(* contract_manager.py: the calls of the Transaction Pipeline *)

NoCall ==
    [amount |-> 0, content |-> Text, next_phase |-> "-", fn |-> "-",
     method |-> "-", memo_id |-> 0, flag |-> FALSE, memo_type |-> "-",
     fee |-> 0]

\* _ACPContractManager.sign_memo(memo_id, is_approved, reason)
CM_sign_memo(memo_id, is_approved) ==
    [NoCall EXCEPT !.fn = "sign_memo", !.method = "signMemo",
                   !.memo_id = memo_id, !.flag = is_approved]

\* _ACPContractManager.create_memo(job_id, content, memo_type, is_secured, next_phase)
CM_create_memo(content, memo_type, is_secured, next_phase) ==
    [NoCall EXCEPT !.fn = "create_memo", !.method = "createMemo",
                   !.content = content, !.memo_type = memo_type,
                   !.flag = is_secured, !.next_phase = next_phase]

\* _ACPContractManager.create_payable_memo(job_id, content, amount, receiver,
\*     fee_amount, fee_type, next_phase, memo_type, expired_at)
CM_create_payable_memo(content, amount, fee_amount, next_phase, memo_type) ==
    [NoCall EXCEPT !.fn = "create_payable_memo", !.method = "createPayableMemo",
                   !.content = content, !.amount = amount, !.fee = fee_amount,
                   !.next_phase = next_phase, !.memo_type = memo_type]

\* _ACPContractManager.approve_allowance(amount)
CM_approve_allowance(amount) ==
    [NoCall EXCEPT !.fn = "approve_allowance", !.method = "approve",
                   !.amount = amount]

\* one step of a client function: a pipeline call (ret: its result is what the
\* function returns) or a time.sleep(d)
Call(c, ret) == [ret |-> ret, k |-> "call", call |-> c, d |-> 0]
Sleep(d) == [ret |-> FALSE, k |-> "sleep", call |-> NoCall, d |-> d]

\* time.sleep(10) between dependent calls
SettleDelay == 10

-----------------------------------------------------------------------------
(* client.py: the client functions, as the sequence of steps each performs *)

\* a respond_to_job that stops after signing
respond_to_job_sign_only(memo_id, accept, content) ==
    <<Call(CM_sign_memo(memo_id, accept), TRUE)>>

\* a respond_to_job that creates the memo to TRANSACTION whatever the answer
respond_to_job_always_creating(memo_id, accept, content) ==
    <<Call(CM_sign_memo(memo_id, accept), TRUE), Sleep(SettleDelay),
      Call(CM_create_memo(content, "MESSAGE", FALSE, "TRANSACTION"), FALSE)>>

\* VirtualsACP.respond_to_job: sign the memo; on accept wait and create the
\* message memo that leads to TRANSACTION; returns the signMemo tx hash
respond_to_job(memo_id, accept, content) ==
    <<Call(CM_sign_memo(memo_id, accept), TRUE)>> \o
    (IF ~accept THEN <<>>
     ELSE <<Sleep(SettleDelay),
            Call(CM_create_memo(content, "MESSAGE", FALSE, "TRANSACTION"), FALSE)>>)

\* a pay_job that stops after signing the memo
pay_job_sign_only(memo_id, amount, reason) ==
    <<Call(CM_approve_allowance(amount), FALSE), Sleep(SettleDelay),
      Call(CM_sign_memo(memo_id, TRUE), TRUE)>>

\* VirtualsACP.pay_job: approve, sign the memo, create the memo to EVALUATION
pay_job(memo_id, amount, reason) ==
    <<Call(CM_approve_allowance(amount), FALSE), Sleep(SettleDelay),
      Call(CM_sign_memo(memo_id, TRUE), FALSE), Sleep(SettleDelay),
      Call(CM_create_memo(reason, "MESSAGE", FALSE, "EVALUATION"), TRUE)>>

\* VirtualsACP.request_funds
request_funds(amount, fee_amount, reason, next_phase) ==
    <<Call(CM_create_payable_memo(reason, amount, fee_amount, next_phase,
                                  "PAYABLE_REQUEST"), TRUE)>>

\* VirtualsACP.respond_to_funds_request
respond_to_funds_request(memo_id, accept, amount) ==
    IF ~accept THEN <<Call(CM_sign_memo(memo_id, FALSE), TRUE)>>
    ELSE (IF amount > 0 THEN <<Call(CM_approve_allowance(amount), FALSE)>> ELSE <<>>)
         \o <<Call(CM_sign_memo(memo_id, TRUE), TRUE)>>

\* a transfer_funds that creates a plain transfer memo, outside escrow
transfer_funds_unescrowed(amount, fee_amount, reason, next_phase) ==
    (IF amount + fee_amount > 0
     THEN <<Call(CM_approve_allowance(amount + fee_amount), FALSE)>> ELSE <<>>)
    \o <<Call(CM_create_payable_memo(reason, amount, fee_amount, next_phase,
                                     "PAYABLE_TRANSFER"), TRUE)>>

\* VirtualsACP.transfer_funds
transfer_funds(amount, fee_amount, reason, next_phase) ==
    (IF amount + fee_amount > 0
     THEN <<Call(CM_approve_allowance(amount + fee_amount), FALSE)>> ELSE <<>>)
    \o <<Call(CM_create_payable_memo(reason, amount, fee_amount, next_phase,
                                     "PAYABLE_TRANSFER_ESCROW"), TRUE)>>

\* VirtualsACP.send_message
send_message(message, next_phase) ==
    <<Call(CM_create_memo(message, "MESSAGE", FALSE, next_phase), TRUE)>>

\* VirtualsACP.respond_to_funds_transfer
respond_to_funds_transfer(memo_id, accept) ==
    <<Call(CM_sign_memo(memo_id, accept), TRUE)>>

\* VirtualsACP.deliver_job: deliverable.model_dump_json() is JSON {type, value},
\* no payload envelope
deliver_job(deliverable) ==
    <<Call(CM_create_memo(deliverable, "OBJECT_URL", TRUE, "COMPLETED"), TRUE)>>

\* VirtualsACP.sign_memo
sign_memo(memo_id, accept) ==
    <<Call(CM_sign_memo(memo_id, accept), TRUE)>>

-----------------------------------------------------------------------------
(* job.py: the Job operations.  Each yields the exception its guard raises
   (err) or the steps of the client function it hands off to (plan). *)

Raise(e) == [plan |-> <<>>, err |-> e]
Proceed(steps) == [plan |-> steps, err |-> ""]

RECURSIVE SumAmounts(_)
\* sum(p.amount for p in payload)
SumAmounts(items) ==
    IF items = <<>> THEN 0 ELSE Head(items).amount + SumAmounts(Tail(items))

\* ACPJob.latest_memo: memos[-1] if memos else None (as an index, 0 for None)
latest_memo(j) == Len(j.memos)

\* ACPJob._get_memo_by_id: next((m for m in memos if m.id == memo_id), None)
\* (as an index, 0 for None)
get_memo_by_id(j, memo_id) ==
    IF \E i \in DOMAIN j.memos : j.memos[i].id = memo_id
    THEN CHOOSE i \in DOMAIN j.memos :
            /\ j.memos[i].id = memo_id
            /\ \A k \in DOMAIN j.memos : j.memos[k].id = memo_id => i <= k
    ELSE 0

\* a pay that looks at the latest memo only
transaction_memo_latest_only(j) ==
    IF j.memos # <<>> /\ j.memos[Len(j.memos)].next_phase = "TRANSACTION"
    THEN Len(j.memos) ELSE 0

\* a pay that takes the latest memo whatever its next_phase
transaction_memo_unchecked(j) == Len(j.memos)

\* the memo pay acts on: next((m for m in memos if m.next_phase == TRANSACTION), None)
\* (as an index, 0 for None)
transaction_memo(j) ==
    IF \E i \in DOMAIN j.memos : j.memos[i].next_phase = "TRANSACTION"
    THEN CHOOSE i \in DOMAIN j.memos :
            /\ j.memos[i].next_phase = "TRANSACTION"
            /\ \A k \in DOMAIN j.memos : j.memos[k].next_phase = "TRANSACTION" => i <= k
    ELSE 0

\* ACPJob.pay
pay(j, amount) ==
    LET i == transaction_memo(j) IN
    IF i = 0 THEN Raise("ValueError")
    ELSE Proceed(pay_job(j.memos[i].id, amount, Text))

\* ACPJob.respond (payload None)
respond(j, accept) ==
    LET i == latest_memo(j) IN
    IF i = 0 \/ j.memos[i].next_phase # "NEGOTIATION" THEN Raise("ValueError")
    ELSE Proceed(respond_to_job(j.memos[i].id, accept, Text))

\* a deliver that only tests that the job has a memo
deliver_any_phase(j) ==
    IF latest_memo(j) = 0 THEN Raise("ValueError")
    ELSE Proceed(deliver_job(Json))

\* ACPJob.deliver
deliver(j) ==
    LET i == latest_memo(j) IN
    IF i = 0 \/ j.memos[i].next_phase # "EVALUATION" THEN Raise("ValueError")
    ELSE Proceed(deliver_job(Json))

\* an evaluate that approves whatever it is told
evaluate_approving(j, accept) ==
    LET i == latest_memo(j) IN
    IF i = 0 \/ j.memos[i].next_phase # "COMPLETED" THEN Raise("ValueError")
    ELSE Proceed(sign_memo(j.memos[i].id, TRUE))

\* ACPJob.evaluate
evaluate(j, accept) ==
    LET i == latest_memo(j) IN
    IF i = 0 \/ j.memos[i].next_phase # "COMPLETED" THEN Raise("ValueError")
    ELSE Proceed(sign_memo(j.memos[i].id, accept))

\* an open_position without the test for an empty list
open_position_unchecked(j, payload, fee_amount) ==
    Proceed(transfer_funds(SumAmounts(payload), fee_amount,
                           Encode("open_position", TRUE, payload),
                           "TRANSACTION"))

\* ACPJob.open_position
open_position(j, payload, fee_amount) ==
    IF payload = <<>> THEN Raise("ValueError")
    ELSE Proceed(transfer_funds(SumAmounts(payload), fee_amount,
                                Encode("open_position", TRUE, payload),
                                "TRANSACTION"))

\* the guard with its next_phase test left out
matched_memo_fails_no_phase(j, memo_id, memo_type) ==
    LET i == get_memo_by_id(j, memo_id) IN
    \/ i = 0
    \/ j.memos[i].type # memo_type

\* the guard shared by the respond_* operations: the memo matched by id, its
\* next_phase, its memo type, then the decoded payload and its declared type
matched_memo_fails(j, memo_id, memo_type) ==
    LET i == get_memo_by_id(j, memo_id) IN
    \/ i = 0
    \/ j.memos[i].next_phase # "TRANSACTION"
    \/ j.memos[i].type # memo_type

payload_of(j, memo_id, model) ==
    try_parse_json_model(j.memos[get_memo_by_id(j, memo_id)].content, model)

\* a payload test that trusts any payload that decodes
payload_fails_type_unchecked(j, memo_id, model, payload_type) ==
    ~payload_of(j, memo_id, model).ok

\* `payload is None or payload.type != PayloadType.X`
payload_fails(j, memo_id, model, payload_type) ==
    LET p == payload_of(j, memo_id, model) IN
    ~p.ok \/ p.type # payload_type

\* ACPJob.respond_open_position
respond_open_position(j, memo_id, accept) ==
    IF matched_memo_fails(j, memo_id, "PAYABLE_TRANSFER_ESCROW") THEN Raise("ValueError")
    ELSE IF payload_fails(j, memo_id, "OpenPositionPayload", "open_position")
         THEN Raise("ValueError")
    ELSE Proceed(respond_to_funds_transfer(memo_id, accept))

\* ACPJob.close_partial_position
close_partial_position(j, payload) ==
    Proceed(request_funds(payload.amount, 0,
                          Encode("close_partial_position", FALSE, <<payload>>),
                          "TRANSACTION"))

\* ACPJob.respond_close_partial_position; close_position_payload.data.amount
\* raises AttributeError when data decoded as a list
respond_close_partial_position(j, memo_id, accept) ==
    IF matched_memo_fails(j, memo_id, "PAYABLE_REQUEST") THEN Raise("ValueError")
    ELSE IF payload_fails(j, memo_id, "ClosePositionPayload", "close_partial_position")
         THEN Raise("ValueError")
    ELSE LET p == payload_of(j, memo_id, "ClosePositionPayload") IN
         IF p.list THEN Raise("AttributeError")
         ELSE Proceed(respond_to_funds_request(memo_id, accept, p.items[1].amount))

\* ACPJob.request_close_position
request_close_position(j, payload) ==
    Proceed(send_message(Encode("close_position", FALSE, <<payload>>), "TRANSACTION"))

\* ACPJob.response_request_close_position
response_request_close_position(j, memo_id, accept, payload) ==
    IF matched_memo_fails(j, memo_id, "MESSAGE") THEN Raise("ValueError")
    ELSE IF payload_fails(j, memo_id, "RequestClosePositionPayload", "close_position")
         THEN Raise("ValueError")
    ELSE Proceed(<<Call(CM_sign_memo(memo_id, accept), FALSE)>> \o
                 (IF accept
                  THEN transfer_funds(payload.amount, 0,
                                      Encode("close_position", FALSE, <<payload>>),
                                      "TRANSACTION")
                  ELSE <<>>))

\* ACPJob.confirm_close_position
confirm_close_position(j, memo_id, accept) ==
    IF matched_memo_fails(j, memo_id, "PAYABLE_TRANSFER_ESCROW") THEN Raise("ValueError")
    ELSE IF payload_fails(j, memo_id, "ClosePositionPayload", "close_position")
         THEN Raise("ValueError")
    ELSE Proceed(<<Call(CM_sign_memo(memo_id, accept), FALSE)>>)

\* ACPJob.position_fulfilled
position_fulfilled(j, payload) ==
    Proceed(transfer_funds(payload.amount, 0,
                           Encode("position_fulfilled", FALSE, <<payload>>),
                           "TRANSACTION"))

\* ACPJob.respond_position_fulfilled
respond_position_fulfilled(j, memo_id, accept) ==
    IF matched_memo_fails(j, memo_id, "PAYABLE_TRANSFER_ESCROW") THEN Raise("ValueError")
    ELSE IF payload_fails(j, memo_id, "PositionFulfilledPayload", "position_fulfilled")
         THEN Raise("ValueError")
    ELSE Proceed(respond_to_funds_transfer(memo_id, accept))

\* ACPJob.unfulfilled_position
unfulfilled_position(j, payload) ==
    Proceed(transfer_funds(payload.amount, 0,
                           Encode("unfulfilled_position", FALSE, <<payload>>),
                           "TRANSACTION"))

\* ACPJob.respond_unfulfilled_position
respond_unfulfilled_position(j, memo_id, accept) ==
    IF matched_memo_fails(j, memo_id, "PAYABLE_TRANSFER_ESCROW") THEN Raise("ValueError")
    ELSE IF payload_fails(j, memo_id, "UnfulfilledPositionPayload", "unfulfilled_position")
         THEN Raise("ValueError")
    ELSE Proceed(respond_to_funds_transfer(memo_id, accept))

\* ACPJob.close_job
close_job(j) ==
    Proceed(send_message(
        Encode("close_job_and_withdraw", FALSE, <<Rec("CloseJobAndWithdrawPayload", 0)>>),
        "TRANSACTION"))

\* a respond_close_job that transfers the funds whatever accept is
respond_close_job_always_transfers(j, memo_id, accept, fulfilled_positions) ==
    IF matched_memo_fails(j, memo_id, "MESSAGE") THEN Raise("ValueError")
    ELSE IF payload_fails(j, memo_id, "CloseJobAndWithdrawPayload", "close_job_and_withdraw")
         THEN Raise("ValueError")
    ELSE Proceed(<<Call(CM_sign_memo(memo_id, accept), FALSE)>> \o
                 transfer_funds(SumAmounts(fulfilled_positions), 0,
                                Encode("position_fulfilled", TRUE, fulfilled_positions),
                                "COMPLETED"))

\* ACPJob.respond_close_job
respond_close_job(j, memo_id, accept, fulfilled_positions) ==
    IF matched_memo_fails(j, memo_id, "MESSAGE") THEN Raise("ValueError")
    ELSE IF payload_fails(j, memo_id, "CloseJobAndWithdrawPayload", "close_job_and_withdraw")
         THEN Raise("ValueError")
    ELSE Proceed(<<Call(CM_sign_memo(memo_id, accept), FALSE)>> \o
                 (IF accept
                  THEN transfer_funds(SumAmounts(fulfilled_positions), 0,
                                      Encode("position_fulfilled", TRUE, fulfilled_positions),
                                      "COMPLETED")
                  ELSE <<>>))

\* ACPJob.confirm_job_closure: matched by id only, then the payload type
confirm_job_closure(j, memo_id, accept) ==
    IF get_memo_by_id(j, memo_id) = 0 THEN Raise("ValueError")
    ELSE IF payload_fails(j, memo_id, "CloseJobAndWithdrawPayload", "close_job_and_withdraw")
         THEN Raise("ValueError")
    ELSE Proceed(sign_memo(memo_id, accept))

-----------------------------------------------------------------------------
(* job snapshots the operations are called on *)

PTE == "PAYABLE_TRANSFER_ESCROW"

MemoKind(type, next_phase, content) ==
    [type |-> type, content |-> content, next_phase |-> next_phase]

\* the memos the operations of this client create (see MemoOfCall)
ProtocolMemos ==
    { MemoKind("MESSAGE", "NEGOTIATION", Text),
      MemoKind("MESSAGE", "TRANSACTION", Text),
      MemoKind("MESSAGE", "EVALUATION", Text),
      MemoKind("OBJECT_URL", "COMPLETED", Json),
      MemoKind(PTE, "TRANSACTION",
               Envelope("open_position", TRUE, <<Rec("OpenPositionPayload", 10)>>)),
      MemoKind("PAYABLE_REQUEST", "TRANSACTION",
               Envelope("close_partial_position", FALSE, <<Rec("ClosePositionPayload", 10)>>)),
      MemoKind("MESSAGE", "TRANSACTION",
               Envelope("close_position", FALSE, <<Rec("RequestClosePositionPayload", 0)>>)),
      MemoKind(PTE, "TRANSACTION",
               Envelope("close_position", FALSE, <<Rec("ClosePositionPayload", 10)>>)),
      MemoKind(PTE, "TRANSACTION",
               Envelope("position_fulfilled", FALSE, <<Rec("PositionFulfilledPayload", 10)>>)),
      MemoKind(PTE, "TRANSACTION",
               Envelope("unfulfilled_position", FALSE, <<Rec("UnfulfilledPositionPayload", 10)>>)),
      MemoKind("MESSAGE", "TRANSACTION",
               Envelope("close_job_and_withdraw", FALSE, <<Rec("CloseJobAndWithdrawPayload", 0)>>)),
      MemoKind(PTE, "COMPLETED",
               Envelope("position_fulfilled", TRUE, <<Rec("PositionFulfilledPayload", 10)>>)) }

\* memos another party may have written: content that is no envelope, an
\* envelope whose declared type and records disagree, records in a list where
\* one record is expected, a zero amount, the right payload at the wrong phase
ForeignMemos ==
    { MemoKind(PTE, "TRANSACTION", Text),
      MemoKind(PTE, "TRANSACTION",
               Envelope("position_fulfilled", FALSE, <<Rec("OpenPositionPayload", 10)>>)),
      MemoKind("PAYABLE_REQUEST", "TRANSACTION",
               Envelope("close_partial_position", TRUE, <<Rec("ClosePositionPayload", 10)>>)),
      MemoKind("PAYABLE_REQUEST", "TRANSACTION",
               Envelope("close_partial_position", FALSE, <<Rec("ClosePositionPayload", 0)>>)),
      MemoKind("MESSAGE", "EVALUATION",
               Envelope("close_job_and_withdraw", FALSE, <<Rec("CloseJobAndWithdrawPayload", 0)>>)),
      MemoKind("MESSAGE", "TRANSACTION",
               Envelope("close_job_and_withdraw", FALSE, <<Rec("scalar", 0)>>)) }

MemoKinds == ProtocolMemos \cup ForeignMemos

\* phases of the job snapshots
JobPhases == {"REQUEST", "TRANSACTION", "COMPLETED"}

\* the job's price
Prices == {10}

\* memo ids are unique within a job and increase in creation order
MemosOf(kinds) ==
    [i \in DOMAIN kinds |->
        ACPMemo(i, kinds[i].type, kinds[i].next_phase, kinds[i].content)]

ACPJob(phase, price, memos) ==
    [id |-> 1, memos |-> memos, phase |-> phase, price |-> price]

\* every job snapshot of at most MaxMemos memos
Jobs ==
    { ACPJob(ph, pr, MemosOf(ks)) :
        ph \in JobPhases, pr \in Prices,
        ks \in UNION { [1..n -> MemoKinds] : n \in 0..MaxMemos } }

\* lists of at most MaxPositions payload records of one class
PositionLists(shape) ==
    UNION { [1..n -> {Rec(shape, a) : a \in PositionAmounts}] : n \in 0..MaxPositions }

-----------------------------------------------------------------------------
(* the state of one operation call *)

\* holders of job_queue_lock
Free == [id |-> 0, by |-> "none"]
ByWorker == [id |-> 0, by |-> "worker"]
ByProducer(p) == [id |-> p, by |-> "producer"]

NoOp == [amount |-> 0, memo_id |-> 0, accept |-> FALSE, name |-> "-", npos |-> 0]
NoResult == [status |-> 0, receipt |-> 0]

IdleCall ==
    /\ pc = "idle"
    /\ op = NoOp
    /\ plan = <<>>
    /\ txpc = "submit"
    /\ retries = 0
    /\ log = <<>>
    /\ result = NoResult
    /\ outcome = "none"

IdleDispatcher ==
    /\ use_thread_lock = TRUE
    /\ job_queue = <<>>
    /\ job_event = FALSE
    /\ lock = Free
    /\ ppc = [p \in 1..NumProducers |-> "done"]
    /\ wpc = "off"
    /\ popped = <<>>

\* initiate_job has not been called
IdleInitiate ==
    /\ ipc = "idle"
    /\ attempt = 0
    /\ relay = "none"

\* no memo is under construction
IdleMemo ==
    /\ wire = Text
    /\ built = NoMemo
    /\ merr = ""
    /\ read = NoData
    /\ read_as = "-"
    /\ ptype = "unread"

\* no event is pushed to the dispatch runtime and nothing is processed
IdleRuntime ==
    /\ dispatcher = "external_seller"
    /\ kind = [p \in 1..NumProducers |-> "other"]
    /\ handled = [p \in 1..NumProducers |-> 0]
    /\ run_state = [p \in 1..NumProducers |-> "none"]
    /\ pass_start = 0

\* the call of a Job operation: the guard raises, or the client function starts
Start(name, memo_id, accept, npos, amount, r) ==
    /\ pc = "idle"
    /\ op' = [amount |-> amount, memo_id |-> memo_id, accept |-> accept,
              name |-> name, npos |-> npos]
    /\ IF r.err # ""
       THEN pc' = "done" /\ outcome' = r.err /\ plan' = <<>>
       ELSE pc' = "run" /\ outcome' = "none" /\ plan' = r.plan
    /\ UNCHANGED <<job, txpc, retries, log, result>>
    /\ UNCHANGED <<dispVars, initVars, memoVars, runVars>>

MemoIds == 1..(Len(job.memos) + 1)

Op_pay == \E amount \in Amounts : Start("pay", 0, TRUE, 0, amount, pay(job, amount))
Op_respond == \E accept \in BOOLEAN : Start("respond", 0, accept, 0, 0, respond(job, accept))
Op_deliver == Start("deliver", 0, TRUE, 0, 0, deliver(job))
Op_evaluate == \E accept \in BOOLEAN : Start("evaluate", 0, accept, 0, 0, evaluate(job, accept))
Op_open_position ==
    \E payload \in PositionLists("OpenPositionPayload"), fee \in Fees :
        Start("open_position", 0, TRUE, Len(payload), 0, open_position(job, payload, fee))
Op_respond_open_position ==
    \E memo_id \in MemoIds, accept \in BOOLEAN :
        Start("respond_open_position", memo_id, accept, 0, 0,
              respond_open_position(job, memo_id, accept))
Op_close_partial_position ==
    \E a \in Amounts :
        Start("close_partial_position", 0, TRUE, 1, a,
              close_partial_position(job, Rec("ClosePositionPayload", a)))
Op_respond_close_partial_position ==
    \E memo_id \in MemoIds, accept \in BOOLEAN :
        Start("respond_close_partial_position", memo_id, accept, 0, 0,
              respond_close_partial_position(job, memo_id, accept))
Op_request_close_position ==
    Start("request_close_position", 0, TRUE, 1, 0,
          request_close_position(job, Rec("RequestClosePositionPayload", 0)))
Op_response_request_close_position ==
    \E memo_id \in MemoIds, accept \in BOOLEAN, a \in Amounts :
        Start("response_request_close_position", memo_id, accept, 1, a,
              response_request_close_position(job, memo_id, accept,
                                              Rec("ClosePositionPayload", a)))
Op_confirm_close_position ==
    \E memo_id \in MemoIds, accept \in BOOLEAN :
        Start("confirm_close_position", memo_id, accept, 0, 0,
              confirm_close_position(job, memo_id, accept))
Op_position_fulfilled ==
    \E a \in Amounts :
        Start("position_fulfilled", 0, TRUE, 1, a,
              position_fulfilled(job, Rec("PositionFulfilledPayload", a)))
Op_respond_position_fulfilled ==
    \E memo_id \in MemoIds, accept \in BOOLEAN :
        Start("respond_position_fulfilled", memo_id, accept, 0, 0,
              respond_position_fulfilled(job, memo_id, accept))
Op_unfulfilled_position ==
    \E a \in Amounts :
        Start("unfulfilled_position", 0, TRUE, 1, a,
              unfulfilled_position(job, Rec("UnfulfilledPositionPayload", a)))
Op_respond_unfulfilled_position ==
    \E memo_id \in MemoIds, accept \in BOOLEAN :
        Start("respond_unfulfilled_position", memo_id, accept, 0, 0,
              respond_unfulfilled_position(job, memo_id, accept))
Op_close_job == Start("close_job", 0, TRUE, 0, 0, close_job(job))
Op_respond_close_job ==
    \E memo_id \in MemoIds, accept \in BOOLEAN,
       fulfilled \in PositionLists("PositionFulfilledPayload") :
        Start("respond_close_job", memo_id, accept, Len(fulfilled), 0,
              respond_close_job(job, memo_id, accept, fulfilled))
Op_confirm_job_closure ==
    \E memo_id \in MemoIds, accept \in BOOLEAN :
        Start("confirm_job_closure", memo_id, accept, 0, 0,
              confirm_job_closure(job, memo_id, accept))

-----------------------------------------------------------------------------
(* contract_manager.py: submit, then confirm in a bounded retry loop.  The
   seven calls (create_memo, sign_memo, create_payable_memo, approve_allowance,
   set_budget, ...) share this code shape. *)

\* retries = 3
MaxRetries == 3
\* time.sleep(2 * (3 - retries))
BackoffUnit == 2
\* result.get("status") == 200
StatusOk == 200
\* statuses of a call that is not confirmed
OtherStatuses == {400}

\* one entry of the log: what was done (submit, submit_raise, confirm,
\* confirm_raise, sleep), for which step of the client function (left: the
\* steps it still had, which numbers its calls), the status confirm returned,
\* the seconds slept
Event(ev, status, d) ==
    [ret |-> IF ev = "sleep" THEN FALSE ELSE Head(plan).ret,
     call |-> IF ev = "sleep" THEN NoCall ELSE Head(plan).call,
     d |-> d, status |-> status, ev |-> ev, left |-> Len(plan)]

InCall == pc = "run" /\ plan # <<>> /\ Head(plan).k = "call"

\* the result validate_transaction returned on the attempt logged last; the
\* receipt is identified by the attempt that produced it
Response(lg) == [status |-> lg[Len(lg)].status, receipt |-> Len(lg)]

\* _sign_transaction(method, args): the user operation is sent to the relay
Submit ==
    /\ InCall /\ txpc = "submit"
    /\ log' = Append(log, Event("submit", 0, 0))
    /\ retries' = MaxRetries
    /\ txpc' = "confirm"
    /\ UNCHANGED <<job, pc, op, plan, result, outcome>>
    /\ UNCHANGED <<dispVars, initVars, memoVars, runVars>>

\* _sign_transaction raises (the relay cannot be reached): nothing was sent and
\* the exception leaves the call, which has no try around the submit
SubmitRaises ==
    /\ InCall /\ txpc = "submit"
    /\ log' = Append(log, Event("submit_raise", 0, 0))
    /\ pc' = "done"
    /\ outcome' = "Exception"
    /\ plan' = <<>>
    /\ UNCHANGED <<job, op, txpc, retries, result>>
    /\ UNCHANGED <<dispVars, initVars, memoVars, runVars>>

\* a confirm that records the confirmed memo's next_phase in the job object
ConfirmOk_advancing_job ==
    /\ InCall /\ txpc = "confirm" /\ retries > 0
    /\ log' = Append(log, Event("confirm", StatusOk, 0))
    /\ result' = IF Head(plan).ret THEN Response(log') ELSE result
    /\ plan' = Tail(plan)
    /\ txpc' = "submit"
    /\ IF Tail(plan) = <<>>
       THEN pc' = "done" /\ outcome' = "returned"
       ELSE pc' = pc /\ outcome' = outcome
    /\ job' = IF Head(plan).call.method \in {"createMemo", "createPayableMemo"}
              THEN [job EXCEPT !.phase = Head(plan).call.next_phase]
              ELSE job
    /\ UNCHANGED <<op, retries>>
    /\ UNCHANGED <<dispVars, initVars, memoVars, runVars>>

\* validate_transaction returns status 200: the call returns that result and
\* the client function goes on with its next step, or returns
ConfirmOk ==
    /\ InCall /\ txpc = "confirm" /\ retries > 0
    /\ log' = Append(log, Event("confirm", StatusOk, 0))
    /\ result' = IF Head(plan).ret THEN Response(log') ELSE result
    /\ plan' = Tail(plan)
    /\ txpc' = "submit"
    /\ IF Tail(plan) = <<>>
       THEN pc' = "done" /\ outcome' = "returned"
       ELSE pc' = pc /\ outcome' = outcome
    /\ UNCHANGED <<job, op, retries>>
    /\ UNCHANGED <<dispVars, initVars, memoVars, runVars>>

\* a retry loop that sends the user operation again before each new attempt
FailedAttempt_resubmitting(ev, status) ==
    /\ InCall /\ txpc = "confirm" /\ retries > 0
    /\ retries' = retries - 1
    /\ IF retries - 1 = 0
       THEN /\ log' = Append(log, Event(ev, status, 0))
            /\ pc' = "done" /\ outcome' = "Exception" /\ plan' = <<>>
       ELSE /\ log' = log \o <<Event(ev, status, 0),
                               Event("sleep", 0,
                                     BackoffUnit * (MaxRetries - (retries - 1))),
                               Event("submit", 0, 0)>>
            /\ pc' = pc /\ outcome' = outcome /\ plan' = plan
    /\ UNCHANGED <<job, op, txpc, result>>
    /\ UNCHANGED <<dispVars, initVars, memoVars, runVars>>

\* a loop whose last failure is swallowed: the client function goes on with
\* its next step
FailedAttempt_swallowed(ev, status) ==
    /\ InCall /\ txpc = "confirm" /\ retries > 0
    /\ retries' = retries - 1
    /\ IF retries - 1 = 0
       THEN /\ log' = Append(log, Event(ev, status, 0))
            /\ plan' = Tail(plan)
            /\ txpc' = "submit"
            /\ IF Tail(plan) = <<>>
               THEN pc' = "done" /\ outcome' = "returned"
               ELSE pc' = pc /\ outcome' = outcome
       ELSE /\ log' = log \o <<Event(ev, status, 0),
                               Event("sleep", 0,
                                     BackoffUnit * (MaxRetries - (retries - 1)))>>
            /\ pc' = pc /\ outcome' = outcome /\ plan' = plan /\ txpc' = txpc
    /\ UNCHANGED <<job, op, result>>
    /\ UNCHANGED <<dispVars, initVars, memoVars, runVars>>

\* a failed attempt: retries -= 1; raise when it reaches 0, else sleep and loop
FailedAttempt(ev, status) ==
    /\ InCall /\ txpc = "confirm" /\ retries > 0
    /\ retries' = retries - 1
    /\ IF retries - 1 = 0
       THEN /\ log' = Append(log, Event(ev, status, 0))
            /\ pc' = "done" /\ outcome' = "Exception" /\ plan' = <<>>
       ELSE /\ log' = log \o <<Event(ev, status, 0),
                               Event("sleep", 0,
                                     BackoffUnit * (MaxRetries - (retries - 1)))>>
            /\ pc' = pc /\ outcome' = outcome /\ plan' = plan
    /\ UNCHANGED <<job, op, txpc, result>>
    /\ UNCHANGED <<dispVars, initVars, memoVars, runVars>>

\* a loop that takes whatever status validate_transaction returned as success
ConfirmNot200_returned ==
    \E st \in OtherStatuses :
        /\ InCall /\ txpc = "confirm" /\ retries > 0
        /\ log' = Append(log, Event("confirm", st, 0))
        /\ result' = IF Head(plan).ret THEN Response(log') ELSE result
        /\ plan' = Tail(plan)
        /\ txpc' = "submit"
        /\ IF Tail(plan) = <<>>
           THEN pc' = "done" /\ outcome' = "returned"
           ELSE pc' = pc /\ outcome' = outcome
        /\ UNCHANGED <<job, op, retries>>
        /\ UNCHANGED <<dispVars, initVars, memoVars, runVars>>

\* validate_transaction returns a status other than 200
ConfirmNot200 == \E st \in OtherStatuses : FailedAttempt("confirm", st)

\* validate_transaction raises
ConfirmRaises == FailedAttempt("confirm_raise", 0)

\* time.sleep between two calls of a client function
SleepStep ==
    /\ pc = "run" /\ plan # <<>> /\ Head(plan).k = "sleep"
    /\ log' = Append(log, Event("sleep", 0, Head(plan).d))
    /\ plan' = Tail(plan)
    /\ UNCHANGED <<job, pc, op, txpc, retries, result, outcome>>
    /\ UNCHANGED <<dispVars, initVars, memoVars, runVars>>

-----------------------------------------------------------------------------
(* SpecJob: one Job operation on any job snapshot; the relay confirms *)

InitJob ==
    /\ job \in Jobs
    /\ IdleCall
    /\ IdleDispatcher
    /\ IdleInitiate
    /\ IdleMemo
    /\ IdleRuntime

Operation ==
    \/ Op_pay
    \/ Op_respond
    \/ Op_deliver
    \/ Op_evaluate
    \/ Op_open_position
    \/ Op_respond_open_position
    \/ Op_close_partial_position
    \/ Op_respond_close_partial_position
    \/ Op_request_close_position
    \/ Op_response_request_close_position
    \/ Op_confirm_close_position
    \/ Op_position_fulfilled
    \/ Op_respond_position_fulfilled
    \/ Op_unfulfilled_position
    \/ Op_respond_unfulfilled_position
    \/ Op_close_job
    \/ Op_respond_close_job
    \/ Op_confirm_job_closure

NextJob == Operation \/ Submit \/ ConfirmOk \/ SleepStep

SpecJob == InitJob /\ [][NextJob]_vars

-----------------------------------------------------------------------------
(* SpecTx: one Job operation on a job that holds one memo this client's
   operations create; the relay may refuse, fail or raise on every attempt *)

TxJobs == { ACPJob("TRANSACTION", pr, MemosOf(<<k>>)) : pr \in Prices, k \in ProtocolMemos }

InitTx ==
    /\ job \in TxJobs
    /\ IdleCall
    /\ IdleDispatcher
    /\ IdleInitiate
    /\ IdleMemo
    /\ IdleRuntime

NextTx == NextJob \/ SubmitRaises \/ ConfirmNot200 \/ ConfirmRaises

SpecTx == InitTx /\ [][NextTx]_vars

-----------------------------------------------------------------------------
(* examples/acp_base/external_evaluation/seller.py (and the same code in
   self_evaluation/buyer.py): on_new_task producers and the job_worker intake
   loop around job_queue, job_queue_lock and job_event.  One step per lock
   operation, queue operation and event operation. *)

Producers == 1..NumProducers

\* safe_append_job with the lock: `with job_queue_lock:` is entered
P_Acquire(p) ==
    /\ ppc[p] = "start" /\ use_thread_lock /\ lock = Free
    /\ lock' = ByProducer(p)
    /\ ppc' = [ppc EXCEPT ![p] = "append"]
    /\ UNCHANGED <<use_thread_lock, job_queue, job_event, wpc, popped>>
    /\ UNCHANGED <<jobVars, initVars, memoVars, runVars>>

\* job_queue.append((job, memo_to_sign)), with the lock held or without a lock
P_Append(p) ==
    /\ \/ ppc[p] = "append" /\ lock = ByProducer(p)
       \/ ppc[p] = "start" /\ ~use_thread_lock
    /\ job_queue' = Append(job_queue, p)
    /\ ppc' = [ppc EXCEPT ![p] = IF use_thread_lock THEN "release" ELSE "set"]
    /\ UNCHANGED <<use_thread_lock, job_event, lock, wpc, popped>>
    /\ UNCHANGED <<jobVars, initVars, memoVars, runVars>>

\* the `with` block of safe_append_job is left
P_Release(p) ==
    /\ ppc[p] = "release" /\ lock = ByProducer(p)
    /\ lock' = Free
    /\ ppc' = [ppc EXCEPT ![p] = "set"]
    /\ UNCHANGED <<use_thread_lock, job_queue, job_event, wpc, popped>>
    /\ UNCHANGED <<jobVars, initVars, memoVars, runVars>>

\* on_new_task: job_event.set()
P_Set(p) ==
    /\ ppc[p] = "set"
    /\ job_event' = TRUE
    /\ ppc' = [ppc EXCEPT ![p] = "done"]
    /\ UNCHANGED <<use_thread_lock, job_queue, lock, wpc, popped>>
    /\ UNCHANGED <<jobVars, initVars, memoVars, runVars>>

\* job_worker: job_event.wait() returns once the event is set
W_Wait ==
    /\ wpc = "wait" /\ job_event
    /\ wpc' = "pop"
    /\ UNCHANGED <<use_thread_lock, job_queue, job_event, lock, ppc, popped>>
    /\ UNCHANGED <<jobVars, initVars, memoVars, runVars>>

\* safe_pop_job with the lock: `with job_queue_lock:` is entered
W_AcquirePop ==
    /\ wpc = "pop" /\ use_thread_lock /\ lock = Free
    /\ lock' = ByWorker
    /\ wpc' = "popping"
    /\ UNCHANGED <<use_thread_lock, job_queue, job_event, ppc, popped>>
    /\ UNCHANGED <<jobVars, initVars, memoVars, runVars>>

\* a safe_pop_job that reads the first entry and leaves it in the queue
W_Pop_peeking ==
    /\ \/ wpc = "popping" /\ lock = ByWorker
       \/ wpc = "pop" /\ ~use_thread_lock
    /\ Len(popped) < MaxPops
    /\ IF job_queue # <<>>
       THEN /\ popped' = Append(popped, Head(job_queue))
            /\ job_queue' = job_queue
            /\ wpc' = IF use_thread_lock THEN "popped" ELSE "spawn"
       ELSE /\ UNCHANGED <<popped, job_queue>>
            /\ wpc' = IF use_thread_lock THEN "drained" ELSE "check"
    /\ UNCHANGED <<use_thread_lock, job_event, lock, ppc>>
    /\ UNCHANGED <<jobVars, initVars, memoVars, runVars>>

\* safe_pop_job: `if job_queue: job_queue.popleft()` else (None, None)
W_Pop ==
    /\ \/ wpc = "popping" /\ lock = ByWorker
       \/ wpc = "pop" /\ ~use_thread_lock
    /\ Len(popped) < MaxPops
    /\ IF job_queue # <<>>
       THEN /\ popped' = Append(popped, Head(job_queue))
            /\ job_queue' = Tail(job_queue)
            /\ wpc' = IF use_thread_lock THEN "popped" ELSE "spawn"
       ELSE /\ UNCHANGED <<popped, job_queue>>
            /\ wpc' = IF use_thread_lock THEN "drained" ELSE "check"
    /\ UNCHANGED <<use_thread_lock, job_event, lock, ppc>>
    /\ UNCHANGED <<jobVars, initVars, memoVars, runVars>>

\* the `with` block of safe_pop_job is left
W_ReleasePop ==
    /\ wpc \in {"popped", "drained"} /\ lock = ByWorker
    /\ lock' = Free
    /\ wpc' = IF wpc = "popped" THEN "spawn" ELSE "check"
    /\ UNCHANGED <<use_thread_lock, job_queue, job_event, ppc, popped>>
    /\ UNCHANGED <<jobVars, initVars, memoVars, runVars>>

\* threading.Thread(target=handle_job_with_delay, ...).start(); the loop goes on
W_Spawn ==
    /\ wpc = "spawn"
    /\ wpc' = "pop"
    /\ UNCHANGED <<use_thread_lock, job_queue, job_event, lock, ppc, popped>>
    /\ UNCHANGED <<jobVars, initVars, memoVars, runVars>>

\* after the drain loop: `with job_queue_lock:` is entered
W_AcquireCheck ==
    /\ wpc = "check" /\ use_thread_lock /\ lock = Free
    /\ lock' = ByWorker
    /\ wpc' = "checking"
    /\ UNCHANGED <<use_thread_lock, job_queue, job_event, ppc, popped>>
    /\ UNCHANGED <<jobVars, initVars, memoVars, runVars>>

\* a check that clears the signal whatever the queue holds
QueueObservedEmpty_untested == TRUE

\* the test `not job_queue` that guards job_event.clear()
QueueObservedEmpty == job_queue = <<>>

\* `if not job_queue:` is evaluated
W_CheckEmpty ==
    /\ \/ wpc = "checking" /\ lock = ByWorker
       \/ wpc = "check" /\ ~use_thread_lock
    /\ wpc' = IF QueueObservedEmpty THEN "clear" ELSE "checked"
    /\ UNCHANGED <<use_thread_lock, job_queue, job_event, lock, ppc, popped>>
    /\ UNCHANGED <<jobVars, initVars, memoVars, runVars>>

\* job_event.clear()
W_Clear ==
    /\ wpc = "clear"
    /\ job_event' = FALSE
    /\ wpc' = "checked"
    /\ UNCHANGED <<use_thread_lock, job_queue, lock, ppc, popped>>
    /\ UNCHANGED <<jobVars, initVars, memoVars, runVars>>

\* the `with` block is left (or there was none); back to job_event.wait()
W_EndCheck ==
    /\ wpc = "checked"
    /\ lock' = IF use_thread_lock THEN Free ELSE lock
    /\ wpc' = "wait"
    /\ UNCHANGED <<use_thread_lock, job_queue, job_event, ppc, popped>>
    /\ UNCHANGED <<jobVars, initVars, memoVars, runVars>>

InitDispatch ==
    /\ use_thread_lock \in BOOLEAN
    /\ job_queue = <<>>
    /\ job_event = FALSE
    /\ lock = Free
    /\ ppc = [p \in Producers |-> "start"]
    /\ wpc = "wait"
    /\ popped = <<>>
    /\ job = ACPJob("REQUEST", 10, <<>>)
    /\ IdleCall
    /\ IdleInitiate
    /\ IdleMemo
    /\ IdleRuntime

Producer(p) == P_Acquire(p) \/ P_Append(p) \/ P_Release(p) \/ P_Set(p)

Worker ==
    \/ W_Wait
    \/ W_AcquirePop
    \/ W_Pop
    \/ W_ReleasePop
    \/ W_Spawn
    \/ W_AcquireCheck
    \/ W_CheckEmpty
    \/ W_Clear
    \/ W_EndCheck

NextDispatch == (\E p \in Producers : Producer(p)) \/ Worker

SpecDispatch == InitDispatch /\ [][NextDispatch]_vars

-----------------------------------------------------------------------------
(* reading the state of a call *)

Called(name) == pc # "idle" /\ op.name = name

\* submit and confirm calls made so far (network calls)
NetCalls == { i \in DOMAIN log : log[i].ev # "sleep" }
Submits == { i \in DOMAIN log : log[i].ev = "submit" }
SubmitsOfMethod(method) == { i \in Submits : log[i].call.method = method }

\* the operation raised before it made any submit or confirm call
FailedLocally == pc = "done" /\ outcome # "returned" /\ NetCalls = {}
PreconditionError == pc = "done" /\ outcome = "ValueError" /\ NetCalls = {}

HasLatest(next_phase) ==
    job.memos # <<>> /\ job.memos[Len(job.memos)].next_phase = next_phase

HasMemoWith(next_phase) ==
    \E i \in DOMAIN job.memos : job.memos[i].next_phase = next_phase

\* the job holds a memo with this id, next_phase and memo type
HasMatched(memo_id, next_phase, memo_type) ==
    \E i \in DOMAIN job.memos :
        /\ job.memos[i].id = memo_id
        /\ job.memos[i].next_phase = next_phase
        /\ job.memos[i].type = memo_type

HasId(memo_id) == \E i \in DOMAIN job.memos : job.memos[i].id = memo_id

-----------------------------------------------------------------------------
(* C1 *)

\* the requirement of each guarded operation on the latest memo or on the
\* memo matched by memo_id, pay excepted
RequirementMet ==
    CASE op.name = "respond" -> HasLatest("NEGOTIATION")
      [] op.name = "deliver" -> HasLatest("EVALUATION")
      [] op.name = "evaluate" -> HasLatest("COMPLETED")
      [] op.name = "respond_open_position" ->
            HasMatched(op.memo_id, "TRANSACTION", "PAYABLE_TRANSFER_ESCROW")
      [] op.name = "respond_close_partial_position" ->
            HasMatched(op.memo_id, "TRANSACTION", "PAYABLE_REQUEST")
      [] op.name = "respond_position_fulfilled" ->
            HasMatched(op.memo_id, "TRANSACTION", "PAYABLE_TRANSFER_ESCROW")
      [] op.name = "respond_unfulfilled_position" ->
            HasMatched(op.memo_id, "TRANSACTION", "PAYABLE_TRANSFER_ESCROW")
      [] op.name = "respond_close_job" ->
            HasMatched(op.memo_id, "TRANSACTION", "MESSAGE")
      [] op.name = "confirm_job_closure" -> HasId(op.memo_id)
      [] OTHER -> TRUE

-----------------------------------------------------------------------------
(* C2 *)

\* the calls of the contract manager made so far, numbered by the steps the
\* client function still had when it made them
CallIds == { log[i].left : i \in { k \in DOMAIN log : log[k].ev = "submit" } }

SubmitsOf(c) == { i \in DOMAIN log : log[i].ev = "submit" /\ log[i].left = c }

AttemptsOf(c) ==
    { i \in DOMAIN log : log[i].ev \in {"confirm", "confirm_raise"} /\ log[i].left = c }

SucceededOf(c) ==
    { i \in AttemptsOf(c) : log[i].ev = "confirm" /\ log[i].status = StatusOk }

FailedOf(c) == AttemptsOf(c) \ SucceededOf(c)

\* the call an exception came out of: the one of the event logged last
RaisedCall == IF outcome = "Exception" THEN log[Len(log)].left ELSE 0

LastAttemptOf(c) == CHOOSE i \in AttemptsOf(c) : \A k \in AttemptsOf(c) : k <= i

\* confirm failed on attempts 1 and 2 of call c and reported success on attempt 3
ScenarioD(c) ==
    /\ Cardinality(AttemptsOf(c)) = 3
    /\ Cardinality(FailedOf(c)) = 2
    /\ LastAttemptOf(c) \in SucceededOf(c)

-----------------------------------------------------------------------------
(* C3 *)

\* the call made last, the one an exception comes from
LastCall == CHOOSE c \in CallIds : \A d \in CallIds : c <= d

\* the calls that returned to the client function
ReturnedCalls ==
    { c \in CallIds : Len(plan) < c /\ c # RaisedCall }

\* C3: a call returns a result only if a confirm attempt reported status 200;
\* every other status and every exception of confirm is one failed attempt;
\* after at most 3 failed attempts the call raises, and the operation ends with
\* that exception, making no further call and returning nothing.
C3_ReturnOnlyOnSuccess ==
    /\ \A c \in ReturnedCalls : SucceededOf(c) # {}
    /\ (result # NoResult) =>
           /\ result.receipt \in DOMAIN log
           /\ log[result.receipt].ev = "confirm"
           /\ log[result.receipt].status = StatusOk
    /\ \A c \in CallIds :
           /\ Cardinality(FailedOf(c)) <= 3
           /\ (Cardinality(FailedOf(c)) = 3) =>
                  /\ SucceededOf(c) = {}
                  /\ pc = "done" /\ outcome = "Exception" /\ c = RaisedCall
           /\ (txpc = "confirm" /\ InCall /\ c = Len(plan)) =>
                  retries = 3 - Cardinality(FailedOf(c))
    /\ (outcome = "returned") => \A c \in CallIds : SucceededOf(c) # {}
    /\ (outcome = "Exception") => (pc = "done" /\ plan = <<>>)

C3_Witness ==
    /\ pc = "done" /\ outcome = "Exception"
    /\ Cardinality(CallIds) = 2
    /\ Cardinality(FailedOf(LastCall)) = 3
    /\ \E i, k \in FailedOf(LastCall) :
           log[i].ev = "confirm" /\ log[k].ev = "confirm_raise"

-----------------------------------------------------------------------------
(* C4 *)

\* the producers whose entry is in the queue or was popped
Pushed == { p \in Producers : ppc[p] \in {"release", "set", "done"} }

PoppedSet == { popped[i] : i \in DOMAIN popped }

\* C4: with the lock enabled, the intake loop holds the queue lock and the
\* queue is empty whenever it is about to clear the wake signal and in the step
\* that clears it; so every entry pushed before the check has been popped when
\* the signal is cleared.
C4_ClearOnlyWhenDrained ==
    (use_thread_lock /\ wpc = "clear") =>
        /\ lock = ByWorker
        /\ job_queue = <<>>
        /\ Pushed \subseteq PoppedSet

\* the signal has been cleared under the lock after all the producers pushed
C4_Witness ==
    /\ use_thread_lock /\ wpc = "checked" /\ lock = ByWorker /\ ~job_event
    /\ Pushed = Producers
    /\ PoppedSet = Producers

-----------------------------------------------------------------------------
(* C5 *)

\* C5: no pushed event is missed: whenever the signal is clear and the queue is
\* non-empty, some producer has appended but not yet executed its set-signal
\* step (so the intake loop will be woken and pop the entry).
C5_NoMissedEvent ==
    (~job_event /\ job_queue # <<>>) =>
        \E p \in Producers : ppc[p] \in {"release", "set"}

-----------------------------------------------------------------------------
(* C6 *)

ScenarioA ==
    /\ job.phase = "REQUEST" /\ HasLatest("NEGOTIATION")
    /\ Called("respond") /\ op.accept

\* C6: respond(accept=true) on a job in REQUEST whose latest memo has next_phase
\* NEGOTIATION passes its guard and, with submit and confirm succeeding,
\* returns having submitted exactly one createMemo, whose next_phase is
\* TRANSACTION.
C6_RespondAccept ==
    ScenarioA =>
        /\ outcome # "ValueError"
        /\ pc = "done" =>
            /\ outcome = "returned"
            /\ Cardinality(SubmitsOfMethod("createMemo")) = 1
            /\ \A i \in SubmitsOfMethod("createMemo") :
                   log[i].call.next_phase = "TRANSACTION"

C6_Witness ==
    ScenarioA /\ pc = "done" /\ outcome = "returned"
              /\ Cardinality(SubmitsOfMethod("createMemo")) = 1

-----------------------------------------------------------------------------
(* C7 *)

ScenarioB ==
    /\ job.phase = "TRANSACTION" /\ HasLatest("EVALUATION") /\ job.price = 10
    /\ Called("pay") /\ op.amount = 10

\* C7 as stated: pay(10) on a job in TRANSACTION whose latest memo has
\* next_phase EVALUATION and whose price is 10 passes its guard and succeeds.
C7_PayOnEvaluationMemo ==
    ScenarioB => /\ outcome # "ValueError"
                 /\ pc = "done" => outcome = "returned"

\* C7 amended: pay(10) on such a job passes its guard and succeeds provided the
\* job also holds a memo whose next_phase is TRANSACTION; pay signs the first
\* such memo.
C7_PayWithTransactionMemo ==
    (ScenarioB /\ HasMemoWith("TRANSACTION")) =>
        /\ outcome # "ValueError"
        /\ pc = "done" =>
            /\ outcome = "returned"
            /\ \A i \in SubmitsOfMethod("signMemo") :
                   /\ log[i].call.flag
                   /\ job.memos[log[i].call.memo_id].next_phase = "TRANSACTION"
                   /\ \A k \in 1..(log[i].call.memo_id - 1) :
                          job.memos[k].next_phase # "TRANSACTION"
            /\ Cardinality(SubmitsOfMethod("signMemo")) = 1

C7_Witness ==
    /\ ScenarioB /\ HasMemoWith("TRANSACTION")
    /\ pc = "done" /\ outcome = "returned"
    /\ Cardinality(SubmitsOfMethod("signMemo")) = 1

-----------------------------------------------------------------------------
(* C8 *)

-----------------------------------------------------------------------------
(* C9 *)

\* C9: open_position with an empty list of positions raises at once, on every
\* job snapshot: no allowance approval, no payable memo, no call at all.
C9_OpenPositionEmpty ==
    (Called("open_position") /\ op.npos = 0) => PreconditionError

C9_Witness ==
    Called("open_position") /\ op.npos = 0 /\ job.memos # <<>> /\ PreconditionError

-----------------------------------------------------------------------------
(* C10 *)

\* the payload kind each consuming operation expects
ExpectedKind ==
    CASE op.name = "respond_open_position" -> "open_position"
      [] op.name = "respond_close_partial_position" -> "close_partial_position"
      [] op.name = "respond_position_fulfilled" -> "position_fulfilled"
      [] op.name = "respond_unfulfilled_position" -> "unfulfilled_position"
      [] op.name = "respond_close_job" -> "close_job_and_withdraw"
      [] op.name = "confirm_job_closure" -> "close_job_and_withdraw"
      [] op.name = "response_request_close_position" -> "close_position"
      [] op.name = "confirm_close_position" -> "close_position"
      [] OTHER -> "-"

\* the content of the matched memo is no envelope, or an envelope of another kind
EnvelopeMismatch ==
    /\ ExpectedKind # "-"
    /\ HasId(op.memo_id)
    /\ LET e == structured_content(job.memos[op.memo_id]) IN
       ~e.ok \/ e.type # ExpectedKind

\* C10: an operation that consumes a typed payload fails, with no submit or
\* confirm call, when the content of the matched memo does not decode to an
\* envelope or the envelope declares another kind than the operation expects.
C10_EnvelopeKindChecked ==
    (pc # "idle" /\ EnvelopeMismatch) => FailedLocally

\* respond_open_position on an escrow-transfer memo to TRANSACTION whose
\* records decode as open positions but whose envelope declares another kind
C10_Witness ==
    /\ Called("respond_open_position")
    /\ HasMatched(op.memo_id, "TRANSACTION", "PAYABLE_TRANSFER_ESCROW")
    /\ try_parse_json_model(job.memos[op.memo_id].content, "OpenPositionPayload").ok
    /\ EnvelopeMismatch
    /\ FailedLocally

-----------------------------------------------------------------------------
(* C11 *)

\* phases from which the lifecycle goes nowhere
TerminalPhases == {"COMPLETED", "REJECTED", "EXPIRED"}

\* contract methods that create a memo
MemoCreatingMethods == {"createMemo", "createPayableMemo"}

\* C11: on a job snapshot whose phase is COMPLETED, REJECTED or EXPIRED no Job
\* operation submits a memo-creating transaction (createMemo or
\* createPayableMemo).
C11_TerminalAcceptsNoMemo ==
    (job.phase \in TerminalPhases) =>
        \A i \in Submits : log[i].call.method \notin MemoCreatingMethods

-----------------------------------------------------------------------------
(* client.py: VirtualsACP.initiate_job.  create_job submits the createJob user
   operation (contract_manager.py retries the submit), then initiate_job
   confirms it in its own loop and extracts the job id from the receipt, then
   sets the budget and creates the first memo through the pipeline. *)

\* retry_count = 3
RetryCount == 3
\* retry_delay = 3
RetryDelay == 3

\* _ACPContractManager.create_job(provider_address, evaluator_address, expired_at)
CM_create_job == [NoCall EXCEPT !.fn = "create_job", !.method = "createJob"]

\* _ACPContractManager.set_budget_with_payment_token(job_id, budget)
CM_set_budget_with_payment_token(budget) ==
    [NoCall EXCEPT !.fn = "set_budget_with_payment_token",
                   !.method = "setBudgetWithPaymentToken", !.amount = budget]

\* what the relay holds for a user operation once it is settled with status
\* 200: a receipt whose contract log carries the job id, no receipt at all, a
\* receipt without a log of the contract, a contract log whose data is no
\* integer
ConfirmedKinds == {"job_id", "no_receipts", "no_log", "bad_data"}
\* ... and settled with another status
SettledKinds == ConfirmedKinds \cup {"failed"}

\* one entry of the log made by initiate_job itself (left = 0: no step of a
\* client function's plan)
IEvent(ev, st, d) ==
    [ret |-> FALSE, call |-> CM_create_job, d |-> d, status |-> st, ev |-> ev,
     left |-> 0]

\* initiate_job is called; create_job starts with retries = 3
I_Start ==
    /\ ipc = "idle"
    /\ ipc' = "create_job"
    /\ retries' = MaxRetries
    /\ UNCHANGED <<job, pc, op, plan, txpc, log, result, outcome>>
    /\ UNCHANGED <<attempt, relay>>
    /\ UNCHANGED <<dispVars, memoVars, runVars>>

\* create_job: _sign_transaction("createJob", ...) returns the handle
I_CreateJob ==
    /\ ipc = "create_job" /\ retries > 0
    /\ log' = Append(log, IEvent("submit", 0, 0))
    /\ relay' = "pending"
    /\ ipc' = "settle"
    /\ UNCHANGED <<job, pc, op, plan, txpc, retries, result, outcome>>
    /\ UNCHANGED attempt
    /\ UNCHANGED <<dispVars, memoVars, runVars>>

\* create_job: _sign_transaction raises; retries -= 1, sleep, and after the
\* third failure `raise Exception("Failed to create job")`
I_CreateJobRaises ==
    /\ ipc = "create_job" /\ retries > 0
    /\ log' = log \o <<IEvent("submit_raise", 0, 0),
                       IEvent("sleep", 0, BackoffUnit * (MaxRetries - (retries - 1)))>>
    /\ retries' = retries - 1
    /\ IF retries - 1 = 0
       THEN ipc' = "done" /\ outcome' = "Exception"
       ELSE ipc' = ipc /\ outcome' = outcome
    /\ UNCHANGED <<job, pc, op, plan, txpc, result>>
    /\ UNCHANGED <<attempt, relay>>
    /\ UNCHANGED <<dispVars, memoVars, runVars>>

\* time.sleep(retry_delay) before the confirm loop
I_Settle ==
    /\ ipc = "settle"
    /\ log' = Append(log, IEvent("sleep", 0, RetryDelay))
    /\ attempt' = 0
    /\ ipc' = "validate"
    /\ UNCHANGED <<job, pc, op, plan, txpc, retries, result, outcome>>
    /\ UNCHANGED relay
    /\ UNCHANGED <<dispVars, memoVars, runVars>>

\* the relay settles the user operation; what it then holds does not change
RelaySettles ==
    /\ relay = "pending"
    /\ relay' \in SettledKinds
    /\ UNCHANGED jobVars
    /\ UNCHANGED <<ipc, attempt>>
    /\ UNCHANGED <<dispVars, memoVars, runVars>>

\* the `except Exception` branch of the confirm loop: sleep and go on with the
\* next attempt, or re-raise on the last attempt
I_Except(events) ==
    IF attempt < RetryCount - 1
    THEN /\ log' = log \o events \o <<IEvent("sleep", 0, RetryDelay)>>
         /\ attempt' = attempt + 1
         /\ ipc' = ipc /\ outcome' = outcome
    ELSE /\ log' = log \o events
         /\ attempt' = attempt
         /\ ipc' = "done" /\ outcome' = "Exception"

\* validate_transaction raises
I_ValidateRaises ==
    /\ ipc = "validate"
    /\ I_Except(<<IEvent("confirm_raise", 0, 0)>>)
    /\ UNCHANGED <<job, pc, op, plan, txpc, retries, result>>
    /\ UNCHANGED relay
    /\ UNCHANGED <<dispVars, memoVars, runVars>>

\* an initiate_job without the `job_id is None` check after the loop: after
\* the last attempt it goes on to set the budget
I_ValidateNot200_proceeding ==
    /\ ipc = "validate" /\ relay \in {"pending", "failed"}
    /\ \E st \in (IF relay = "failed" THEN OtherStatuses ELSE {0}) :
           log' = Append(log, IEvent("confirm", st, 0))
    /\ IF attempt < RetryCount - 1
       THEN /\ attempt' = attempt + 1 /\ ipc' = ipc
            /\ UNCHANGED <<pc, plan>>
       ELSE /\ attempt' = attempt /\ ipc' = "tail"
            /\ pc' = "run"
            /\ \E budget \in Amounts, requirement \in {Text, Json} :
                   plan' = <<Call(CM_set_budget_with_payment_token(budget), FALSE),
                             Sleep(SettleDelay),
                             Call(CM_create_memo(requirement, "MESSAGE", TRUE,
                                                 "NEGOTIATION"),
                                  FALSE)>>
    /\ UNCHANGED <<job, op, txpc, retries, result, outcome>>
    /\ UNCHANGED relay
    /\ UNCHANGED <<dispVars, memoVars, runVars>>

\* validate_transaction returns a status other than 200: nothing is raised, the
\* for loop goes on without sleeping; after the last attempt job_id is None and
\* `raise Exception("Failed to create job")`
I_ValidateNot200 ==
    /\ ipc = "validate" /\ relay \in {"pending", "failed"}
    /\ \E st \in (IF relay = "failed" THEN OtherStatuses ELSE {0}) :
           log' = Append(log, IEvent("confirm", st, 0))
    /\ IF attempt < RetryCount - 1
       THEN attempt' = attempt + 1 /\ ipc' = ipc /\ outcome' = outcome
       ELSE attempt' = attempt /\ ipc' = "done" /\ outcome' = "Exception"
    /\ UNCHANGED <<pc, plan>>
    /\ UNCHANGED <<job, op, txpc, retries, result>>
    /\ UNCHANGED relay
    /\ UNCHANGED <<dispVars, memoVars, runVars>>

\* status 200 and the job id is read from the contract log: break, then
\* set_budget_with_payment_token, time.sleep(10), create_memo
I_ValidateJobId ==
    /\ ipc = "validate" /\ relay = "job_id"
    /\ log' = Append(log, IEvent("confirm", StatusOk, 0))
    /\ ipc' = "tail"
    /\ pc' = "run"
    /\ \E budget \in Amounts, requirement \in {Text, Json} :
           plan' = <<Call(CM_set_budget_with_payment_token(budget), FALSE),
                     Sleep(SettleDelay),
                     Call(CM_create_memo(requirement, "MESSAGE", TRUE, "NEGOTIATION"),
                          FALSE)>>
    /\ UNCHANGED <<job, op, txpc, retries, result, outcome>>
    /\ UNCHANGED <<attempt, relay>>
    /\ UNCHANGED <<dispVars, memoVars, runVars>>

\* a confirm loop that sends the createJob user operation again before it
\* confirms again
I_ValidateNoJobId_resubmitting ==
    /\ ipc = "validate" /\ relay \in ConfirmedKinds \ {"job_id"}
    /\ I_Except(<<IEvent("confirm", StatusOk, 0), IEvent("no_job_id", 0, 0),
                  IEvent("submit", 0, 0)>>)
    /\ relay' = "pending"
    /\ UNCHANGED <<job, pc, op, plan, txpc, retries, result>>
    /\ UNCHANGED <<dispVars, memoVars, runVars>>

\* status 200 but receipts[0] does not exist, no log has the contract's
\* address, or its data is no integer: the exception raised inside the try is
\* caught by `except Exception` like every other
I_ValidateNoJobId ==
    /\ ipc = "validate" /\ relay \in ConfirmedKinds \ {"job_id"}
    /\ I_Except(<<IEvent("confirm", StatusOk, 0), IEvent("no_job_id", 0, 0)>>)
    /\ UNCHANGED <<job, pc, op, plan, txpc, retries, result>>
    /\ UNCHANGED relay
    /\ UNCHANGED <<dispVars, memoVars, runVars>>

\* create_memo has returned: requests.post(acp_api_url, json=payload) tells the
\* backend of the job, and initiate_job returns job_id (the response of the
\* post is not looked at)
I_Notify ==
    /\ ipc = "tail" /\ pc = "done" /\ outcome = "returned"
    /\ log' = Append(log, IEvent("notify", 0, 0))
    /\ ipc' = "done"
    /\ UNCHANGED <<job, pc, op, plan, txpc, retries, result, outcome>>
    /\ UNCHANGED <<attempt, relay>>
    /\ UNCHANGED <<dispVars, memoVars, runVars>>

\* requests.post raises (the backend cannot be reached): initiate_job raises
\* after the job, its budget and its first memo are on chain
I_NotifyRaises ==
    /\ ipc = "tail" /\ pc = "done" /\ outcome = "returned"
    /\ log' = Append(log, IEvent("notify_raise", 0, 0))
    /\ ipc' = "done"
    /\ outcome' = "Exception"
    /\ UNCHANGED <<job, pc, op, plan, txpc, retries, result>>
    /\ UNCHANGED <<attempt, relay>>
    /\ UNCHANGED <<dispVars, memoVars, runVars>>

InitInitiate ==
    /\ job = ACPJob("REQUEST", 10, <<>>)
    /\ IdleCall
    /\ IdleDispatcher
    /\ IdleInitiate
    /\ IdleMemo
    /\ IdleRuntime

NextInitiate ==
    \/ I_Start
    \/ I_CreateJob
    \/ I_CreateJobRaises
    \/ I_Settle
    \/ RelaySettles
    \/ I_ValidateRaises
    \/ I_ValidateNot200
    \/ I_ValidateJobId
    \/ I_ValidateNoJobId
    \/ I_Notify
    \/ I_NotifyRaises
    \/ Submit
    \/ SubmitRaises
    \/ ConfirmOk
    \/ ConfirmNot200
    \/ ConfirmRaises
    \/ SleepStep

SpecInitiate == InitInitiate /\ [][NextInitiate]_vars

-----------------------------------------------------------------------------
(* C12 *)

\* the confirm attempts of initiate_job
IConfirms ==
    { i \in DOMAIN log : log[i].left = 0 /\ log[i].ev \in {"confirm", "confirm_raise"} }

\* C12: in initiate_job, once confirm has reported success and the job id
\* could not be extracted from the receipt, no further confirm attempt is made:
\* the extraction failure is terminal whatever is left of the retry budget.
C12_ExtractionNeverRetried ==
    \A i \in DOMAIN log : log[i].ev = "no_job_id" =>
        \A k \in IConfirms : k < i

-----------------------------------------------------------------------------
(* The dispatch runtime with the processing of the popped entries: the
   job_worker of
     examples/acp_base/external_evaluation/seller.py  one thread per entry,
     examples/acp_base/self_evaluation/buyer.py       process_job in the loop
         (yield_finder/buyer.py does the same, the try being in process_job),
     yield_finder/seller.py   REQUEST jobs handled in the loop (prompt, respond
         or re-enqueue), the others in one thread per entry.
   safe_append_job, safe_pop_job, on_new_task and the clearing of job_event
   are the same code in the four files. *)

Dispatchers == {"external_seller", "self_buyer", "yield_seller"}

\* the events yield_finder/seller.py tells apart: a REQUEST job with its
\* negotiation memo to sign, a REQUEST job without it, a job in a later phase
EntryKinds == {"request_negotiation", "request_other", "other"}

\* the producers that push an event
Events == 1..NumEvents

\* the entry safe_pop_job returned last
Current == popped[Len(popped)]

\* job_event.wait() returns; a drain pass begins
R_Wait ==
    /\ wpc = "wait" /\ job_event
    /\ wpc' = "pop"
    /\ pass_start' = Len(popped)
    /\ UNCHANGED <<use_thread_lock, job_queue, job_event, lock, ppc, popped>>
    /\ UNCHANGED <<dispatcher, kind, handled, run_state>>
    /\ UNCHANGED <<jobVars, initVars, memoVars>>

\* threading.Thread(target=handle_job_with_delay, args=(job, memo_to_sign)).start()
R_StartThread ==
    /\ wpc = "spawn"
    /\ \/ dispatcher = "external_seller"
       \/ dispatcher = "yield_seller" /\ kind[Current] = "other"
    /\ handled' = [handled EXCEPT ![Current] = @ + 1]
    /\ run_state' = [run_state EXCEPT ![Current] = "running"]
    /\ wpc' = "pop"
    /\ UNCHANGED <<use_thread_lock, job_queue, job_event, lock, ppc, popped>>
    /\ UNCHANGED <<dispatcher, kind, pass_start>>
    /\ UNCHANGED <<jobVars, initVars, memoVars>>

\* the entry is processed by the intake loop itself: process_job(job,
\* memo_to_sign) in the buyers, job.respond(...) after the prompt answered
\* "a" or "r" in yield_finder/seller.py
R_ProcessInline ==
    /\ wpc = "spawn"
    /\ \/ dispatcher = "self_buyer"
       \/ dispatcher = "yield_seller" /\ kind[Current] = "request_negotiation"
    /\ handled' = [handled EXCEPT ![Current] = @ + 1]
    /\ run_state' = [run_state EXCEPT ![Current] = "running"]
    /\ wpc' = "inline"
    /\ UNCHANGED <<use_thread_lock, job_queue, job_event, lock, ppc, popped>>
    /\ UNCHANGED <<dispatcher, kind, pass_start>>
    /\ UNCHANGED <<jobVars, initVars, memoVars>>

\* the processing in the loop returns
R_InlineReturn ==
    /\ wpc = "inline"
    /\ run_state' = [run_state EXCEPT ![Current] = "returned"]
    /\ wpc' = "pop"
    /\ UNCHANGED <<use_thread_lock, job_queue, job_event, lock, ppc, popped>>
    /\ UNCHANGED <<dispatcher, kind, handled, pass_start>>
    /\ UNCHANGED <<jobVars, initVars, memoVars>>

\* the processing in the loop raises: the buyers catch it (`except Exception`)
\* and go on; yield_finder/seller.py calls job.respond outside any try, and
\* the exception ends job_worker
R_InlineRaise ==
    /\ wpc = "inline"
    /\ run_state' = [run_state EXCEPT ![Current] = "raised"]
    /\ wpc' = IF dispatcher = "self_buyer" THEN "pop" ELSE "dead"
    /\ UNCHANGED <<use_thread_lock, job_queue, job_event, lock, ppc, popped>>
    /\ UNCHANGED <<dispatcher, kind, handled, pass_start>>
    /\ UNCHANGED <<jobVars, initVars, memoVars>>

\* yield_finder/seller.py: the prompt is answered "s", or the memo to sign is
\* absent or no negotiation memo: safe_append_job(job, memo_to_sign) is called
R_Skip ==
    /\ wpc = "spawn"
    /\ dispatcher = "yield_seller"
    /\ kind[Current] \in {"request_negotiation", "request_other"}
    /\ wpc' = "requeue"
    /\ UNCHANGED <<use_thread_lock, job_queue, job_event, lock, ppc, popped>>
    /\ UNCHANGED runVars
    /\ UNCHANGED <<jobVars, initVars, memoVars>>

\* safe_append_job called by the intake loop: `with job_queue_lock:` is entered
R_AcquireRequeue ==
    /\ wpc = "requeue" /\ use_thread_lock /\ lock = Free
    /\ lock' = ByWorker
    /\ wpc' = "requeueing"
    /\ UNCHANGED <<use_thread_lock, job_queue, job_event, ppc, popped>>
    /\ UNCHANGED runVars
    /\ UNCHANGED <<jobVars, initVars, memoVars>>

\* job_queue.append((job, memo_to_sign)) of the entry just popped
R_Requeue ==
    /\ \/ wpc = "requeueing" /\ lock = ByWorker
       \/ wpc = "requeue" /\ ~use_thread_lock
    /\ job_queue' = Append(job_queue, Current)
    /\ wpc' = IF use_thread_lock THEN "requeued" ELSE "pop"
    /\ UNCHANGED <<use_thread_lock, job_event, lock, ppc, popped>>
    /\ UNCHANGED runVars
    /\ UNCHANGED <<jobVars, initVars, memoVars>>

\* the `with` block of safe_append_job is left; the drain loop goes on
R_ReleaseRequeue ==
    /\ wpc = "requeued" /\ lock = ByWorker
    /\ lock' = Free
    /\ wpc' = "pop"
    /\ UNCHANGED <<use_thread_lock, job_queue, job_event, ppc, popped>>
    /\ UNCHANGED runVars
    /\ UNCHANGED <<jobVars, initVars, memoVars>>

\* the entry's thread is the one that runs it (not the intake loop)
InThread(e) ==
    run_state[e] = "running" /\ ~(wpc = "inline" /\ Current = e)

\* handle_job_with_delay: process_job returns, time.sleep(2), the thread ends
H_Return(e) ==
    /\ InThread(e)
    /\ run_state' = [run_state EXCEPT ![e] = "returned"]
    /\ UNCHANGED <<dispatcher, kind, handled, pass_start>>
    /\ UNCHANGED <<dispVars, jobVars, initVars, memoVars>>

\* handle_job_with_delay: process_job raises, `except Exception` prints it
H_Raise(e) ==
    /\ InThread(e)
    /\ run_state' = [run_state EXCEPT ![e] = "raised"]
    /\ UNCHANGED <<dispatcher, kind, handled, pass_start>>
    /\ UNCHANGED <<dispVars, jobVars, initVars, memoVars>>

InitRuntime ==
    /\ use_thread_lock \in BOOLEAN
    /\ job_queue = <<>>
    /\ job_event = FALSE
    /\ lock = Free
    /\ ppc = [p \in Producers |-> IF p \in Events THEN "start" ELSE "done"]
    /\ wpc = "wait"
    /\ popped = <<>>
    /\ job = ACPJob("REQUEST", 10, <<>>)
    /\ IdleCall
    /\ IdleInitiate
    /\ IdleMemo
    /\ dispatcher \in Dispatchers
    /\ kind \in [Producers -> EntryKinds]
    /\ \A p \in Producers :
           (dispatcher # "yield_seller" \/ p \notin Events) => kind[p] = "other"
    /\ handled = [p \in Producers |-> 0]
    /\ run_state = [p \in Producers |-> "none"]
    /\ pass_start = 0

IntakeLoop ==
    \/ R_Wait
    \/ W_AcquirePop
    \/ W_Pop
    \/ W_ReleasePop
    \/ R_StartThread
    \/ R_ProcessInline
    \/ R_InlineReturn
    \/ R_InlineRaise
    \/ R_Skip
    \/ R_AcquireRequeue
    \/ R_Requeue
    \/ R_ReleaseRequeue
    \/ W_AcquireCheck
    \/ W_CheckEmpty
    \/ W_Clear
    \/ W_EndCheck

NextRuntime ==
    \/ \E p \in Events : Producer(p)
    \/ IntakeLoop
    \/ \E e \in Events : H_Return(e) \/ H_Raise(e)

SpecRuntime == InitRuntime /\ [][NextRuntime]_vars

-----------------------------------------------------------------------------
(* C13 *)

\* how many times e occurs in a sequence of entries
Occurrences(seq, e) == Cardinality({ i \in DOMAIN seq : seq[i] = e })

\* on_new_task has appended e's entry
PushedEvent(e) == ppc[e] \in {"release", "set", "done"}

\* the intake loop has popped e and has neither handed it over nor put it back
InHand(e) ==
    /\ wpc \in {"popped", "spawn", "requeue", "requeueing"}
    /\ Current = e

\* C13 as stated: every entry pushed by event ingress is popped once and, once
\* the intake loop has let go of it, has been handed to exactly one processing
\* run.
C13_PoppedOnce ==
    \A e \in Events :
        /\ Occurrences(popped, e) <= 1
        /\ handled[e] <= 1
        /\ (Occurrences(popped, e) = 1 /\ ~InHand(e)) => handled[e] = 1

\* C13 amended: every entry pushed by event ingress is at every moment in
\* exactly one place (in the queue, in the hands of the intake loop, or handed
\* to a processing run), so it is never dropped, never duplicated and handed to
\* at most one processing run.  Where the intake loop never re-enqueues
\* (external_evaluation/seller.py, the buyers, and the non-REQUEST entries of
\* yield_finder/seller.py) the entry is popped once and each pop is a hand-off;
\* an entry that yield_finder/seller.py re-enqueues is popped again.
C13_ConsumedOnce ==
    \A e \in Events :
        /\ Occurrences(job_queue, e) + (IF InHand(e) THEN 1 ELSE 0) + handled[e]
               = (IF PushedEvent(e) THEN 1 ELSE 0)
        /\ handled[e] = 0 <=> run_state[e] = "none"
        /\ (dispatcher # "yield_seller" \/ kind[e] = "other") =>
               /\ Occurrences(popped, e) <= 1
               /\ (Occurrences(popped, e) = 1 /\ ~InHand(e)) => handled[e] = 1

\* an entry was skipped once, popped a second time and then processed
C13_Witness ==
    \E e \in Events :
        /\ dispatcher = "yield_seller"
        /\ Occurrences(popped, e) = 2
        /\ handled[e] = 1 /\ run_state[e] = "returned"
        /\ \E f \in Events : dispatcher = "yield_seller" /\ kind[f] = "other"
                             /\ handled[f] = 1

-----------------------------------------------------------------------------
(* C14 *)

\* a step in which a producer appends to the queue
StepAppends == Len(job_queue') > Len(job_queue)

\* a step in which the intake loop tests the queue and pops from it
StepPops ==
    /\ wpc \in {"pop", "popping"}
    /\ wpc' \in {"popped", "spawn", "drained", "check"}

\* a step in which the intake loop tests the queue before clearing the signal
StepChecks ==
    /\ wpc \in {"check", "checking"}
    /\ wpc' \in {"clear", "checked"}

\* C14: in every configuration of the dispatcher every access to the job queue
\* (the push of on_new_task, the pop of the intake loop, the emptiness check
\* before the signal is cleared) is made by a thread that holds the queue
\* mutex.
C14_QueueUnderMutex ==
    [][/\ StepAppends => lock.by = "producer"
       /\ StepPops => lock = ByWorker
       /\ StepChecks => lock = ByWorker]_vars

-----------------------------------------------------------------------------
(* C15 *)

\* C15: the intake loop never waits for the processing of an entry: whenever an
\* entry's processing is running, it runs in a worker of its own and the intake
\* loop is free to pop the next entry.
C15_IntakeNeverWaits ==
    \A e \in Events :
        run_state[e] = "running" => ~(wpc = "inline" /\ Current = e)

-----------------------------------------------------------------------------
(* C16 *)

\* C16: an error raised by the processing of one entry never ends the intake
\* loop: whatever entry has raised, the loop is still alive.
C16_RaiseNeverEndsIntake ==
    (\E e \in Events : run_state[e] = "raised") => wpc # "dead"

-----------------------------------------------------------------------------
(* C17 *)

\* the pops of the drain pass in progress (or of the last one)
PassPops == (pass_start + 1)..Len(popped)

\* C17: an entry the intake loop has re-enqueued is not popped again within the
\* same drain pass: the entries popped in one pass are pairwise distinct.
C17_RequeuedWaitsForNextWake ==
    \A i \in PassPops : \A k \in PassPops :
        i # k => popped[i] # popped[k]

-----------------------------------------------------------------------------
(* memo.py, utils.py: a memo is constructed from a content string and read
   through payload_type and get_data_as *)

\* a payload type string that is no member of PayloadType
WireTypes == PayloadType \cup {"unknown"}

\* the records of a content string: one of the payload classes, or data that
\* is no JSON object at all
WireRecs == { Rec(s, a) : s \in PayloadShapes \cup {"scalar"}, a \in PositionAmounts }

\* the lists of at most MaxPositions records
WireLists == UNION { [1..n -> WireRecs] : n \in 0..MaxPositions }

\* the content strings memos are constructed from
MemoContents ==
    {Text, Json}
        \cup { Envelope(t, FALSE, <<r>>) : t \in WireTypes, r \in WireRecs }
        \cup { Envelope(t, TRUE, l) : t \in WireTypes, l \in WireLists }

\* what GenericPayload[Dict].model_validate_json(content) raises, "" when it
\* returns: pydantic reports malformed JSON, a type outside PayloadType and
\* data that is no object or list of objects as a ValidationError
ParseError(content) ==
    IF try_parse_json_model(content, "Dict").ok THEN "" ELSE "ValidationError"

CaughtByParse_json_only == {"JSONDecodeError"}

\* try_parse_json_model: `except (json.JSONDecodeError, ValidationError)`
CaughtByParse == {"JSONDecodeError", "ValidationError"}

\* ACPMemo(**data): the fields are set, then structured_content is decoded from
\* content; an exception try_parse_json_model does not catch leaves __init__
M_Construct ==
    /\ built = NoMemo /\ merr = ""
    /\ LET e == IF ParseError(wire) \in CaughtByParse THEN "" ELSE ParseError(wire) IN
           /\ merr' = e
           /\ built' = IF e = "" THEN ACPMemo(1, "MESSAGE", "NEGOTIATION", wire)
                       ELSE NoMemo
    /\ UNCHANGED <<wire, read, read_as, ptype>>
    /\ UNCHANGED <<jobVars, dispVars, initVars, runVars>>

\* memo.payload_type
M_PayloadType ==
    /\ built # NoMemo
    /\ ptype' = ACPMemo_payload_type(built)
    /\ UNCHANGED <<wire, built, merr, read, read_as>>
    /\ UNCHANGED <<jobVars, dispVars, initVars, runVars>>

\* memo.get_data_as(model)
M_GetDataAs(model) ==
    /\ built # NoMemo
    /\ read' = get_data_as(built, model)
    /\ read_as' = model
    /\ UNCHANGED <<wire, built, merr, ptype>>
    /\ UNCHANGED <<jobVars, dispVars, initVars, runVars>>

InitMemo ==
    /\ job = ACPJob("REQUEST", 10, <<>>)
    /\ IdleCall
    /\ IdleDispatcher
    /\ IdleInitiate
    /\ IdleRuntime
    /\ wire \in MemoContents
    /\ built = NoMemo
    /\ merr = ""
    /\ read = NoData
    /\ read_as = "-"
    /\ ptype = "unread"

NextMemo ==
    \/ M_Construct
    \/ M_PayloadType
    \/ \E model \in PayloadShapes : M_GetDataAs(model)

SpecMemo == InitMemo /\ [][NextMemo]_vars

-----------------------------------------------------------------------------
(* C18 *)

\* content that is malformed JSON, JSON of the wrong schema, or an envelope of
\* an unknown payload kind
Undecodable(content) ==
    \/ content.form \in {"text", "json"}
    \/ content.type \notin PayloadType
    \/ \E i \in DOMAIN content.items : content.items[i].shape = "scalar"

\* C18: constructing a memo from any content string never raises because of
\* decoding; when the content is malformed, of the wrong schema or of an
\* unknown payload kind the envelope is absent, and whenever the envelope is
\* absent payload_type and get_data_as (for every shape) return no data.
C18_DecodingNeverRaises ==
    /\ merr = ""
    /\ built # NoMemo =>
           /\ Undecodable(wire) => ~structured_content(built).ok
           /\ ~structured_content(built).ok =>
                  /\ ptype \in {"unread", "-"}
                  /\ read = NoData

\* a memo was constructed from an envelope of an unknown payload kind, and both
\* typed reads were made
C18_Witness ==
    /\ built # NoMemo
    /\ wire.form = "envelope" /\ wire.type = "unknown"
    /\ ptype = "-"
    /\ read_as = "OpenPositionPayload" /\ read = NoData

-----------------------------------------------------------------------------
(* C19 *)

\* the content is what a Job operation encodes: an envelope of a recognised
\* kind whose data is one record of the shape, or a list of records of it
EncodedAs(content, model) ==
    /\ content.form = "envelope"
    /\ content.type \in PayloadType
    /\ \A i \in DOMAIN content.items : content.items[i].shape = model
    /\ content = Encode(content.type, content.list, content.items)

\* the value the content was encoded from, as get_data_as presents values: one
\* record, or the list of the records
Original(content) ==
    IF content.list
    THEN [form |-> "list",
          items |-> [i \in DOMAIN content.items |-> <<content.items[i]>>]]
    ELSE [form |-> "one", items |-> content.items]

\* C19: round trip: an envelope of a recognised kind, encoded to memo content
\* and read back through the memo (payload_type, get_data_as with the kind's
\* shape), yields the original value: same kind, same single-record-or-list
\* shape, same records, for lists of every length.
C19_RoundTrip ==
    (built # NoMemo /\ read_as # "-" /\ EncodedAs(wire, read_as)) =>
        /\ ACPMemo_payload_type(built) = wire.type
        /\ read = Original(wire)

-----------------------------------------------------------------------------
(* C20 *)

\* the log entries a step adds
Added == (Len(log) + 1)..Len(log')

\* a step in which validate_transaction is called
StepConfirms == \E i \in Added : log'[i].ev \in {"confirm", "confirm_raise"}

\* the confirm attempts of the createJob handle that returned status 200
IConfirmed == { i \in IConfirms : log[i].ev = "confirm" /\ log[i].status = StatusOk }

-----------------------------------------------------------------------------
(* C21 *)

\* the operation was called and its guard did not raise
Proceeds == pc # "idle" /\ outcome # "ValueError"

\* C21: deliver proceeds if and only if the job's latest memo has next_phase
\* EVALUATION (otherwise it raises and makes no call); when it proceeds it
\* submits exactly one createMemo, of memo type OBJECT_URL with next_phase
\* COMPLETED, and no signMemo or other call.
C21_Deliver ==
    Called("deliver") =>
        /\ Proceeds <=> HasLatest("EVALUATION")
        /\ ~Proceeds => PreconditionError
        /\ \A i \in Submits :
               /\ log[i].call.method = "createMemo"
               /\ log[i].call.memo_type = "OBJECT_URL"
               /\ log[i].call.next_phase = "COMPLETED"
        /\ Cardinality(Submits) <= 1
        /\ (pc = "done" /\ Proceeds) =>
               outcome = "returned" /\ Cardinality(Submits) = 1

\* deliver has returned on a job whose latest memo leads to EVALUATION
C21_Witness ==
    /\ Called("deliver") /\ HasLatest("EVALUATION")
    /\ pc = "done" /\ outcome = "returned"
    /\ Cardinality(SubmitsOfMethod("createMemo")) = 1

-----------------------------------------------------------------------------
(* C22 *)

\* C22: evaluate(accept) proceeds if and only if the job's latest memo has
\* next_phase COMPLETED (otherwise it raises and makes no call); when it
\* proceeds it submits exactly one signMemo, for the latest memo's id and with
\* the approval flag equal to accept, and creates no memo.
C22_Evaluate ==
    Called("evaluate") =>
        /\ Proceeds <=> HasLatest("COMPLETED")
        /\ ~Proceeds => PreconditionError
        /\ \A i \in Submits :
               /\ log[i].call.method = "signMemo"
               /\ log[i].call.memo_id = job.memos[Len(job.memos)].id
               /\ log[i].call.flag = op.accept
        /\ Cardinality(Submits) <= 1
        /\ (pc = "done" /\ Proceeds) =>
               outcome = "returned" /\ Cardinality(Submits) = 1

\* evaluate(False) has returned on a job of two memos whose latest leads to
\* COMPLETED
C22_Witness ==
    /\ Called("evaluate") /\ ~op.accept /\ HasLatest("COMPLETED")
    /\ Len(job.memos) = 2
    /\ pc = "done" /\ outcome = "returned"
    /\ Cardinality(SubmitsOfMethod("signMemo")) = 1

-----------------------------------------------------------------------------
(* C23 *)

\* the submits that create a memo
MemoSubmits == { i \in Submits : log[i].call.method \in MemoCreatingMethods }

\* memo types that carry funds
PayableTypes == {"PAYABLE_REQUEST", "PAYABLE_TRANSFER", "PAYABLE_TRANSFER_ESCROW"}

\* pay requires a memo whose next_phase is TRANSACTION and signs such a memo
PayActsOnTransactionMemo ==
    /\ Proceeds <=> HasMemoWith("TRANSACTION")
    /\ ~Proceeds => PreconditionError
    /\ \A i \in SubmitsOfMethod("signMemo") :
           /\ log[i].call.flag
           /\ job.memos[log[i].call.memo_id].next_phase = "TRANSACTION"

\* C23 as stated: pay requires the matched memo to have next_phase TRANSACTION,
\* acts on that memo, and the memo it creates is an escrow transfer: of the
\* payable escrow-transfer type, with next_phase EVALUATION.
C23_PayCreatesEscrowTransfer ==
    Called("pay") =>
        /\ PayActsOnTransactionMemo
        /\ \A i \in MemoSubmits :
               /\ log[i].call.memo_type = "PAYABLE_TRANSFER_ESCROW"
               /\ log[i].call.next_phase = "EVALUATION"
        /\ (pc = "done" /\ Proceeds) => Cardinality(MemoSubmits) = 1

\* C23 amended: pay requires a memo whose next_phase is TRANSACTION and acts on
\* that memo: it approves an allowance of the amount, then signs the memo with
\* approval, then creates one memo whose next_phase is EVALUATION; that memo is
\* a plain MESSAGE memo made with createMemo and carries no funds (pay creates
\* no payable memo).
C23_PayCreatesMessageToEvaluation ==
    Called("pay") =>
        /\ PayActsOnTransactionMemo
        /\ \A i \in MemoSubmits :
               /\ log[i].call.method = "createMemo"
               /\ log[i].call.memo_type = "MESSAGE"
               /\ log[i].call.memo_type \notin PayableTypes
               /\ log[i].call.next_phase = "EVALUATION"
               /\ \E k \in SubmitsOfMethod("signMemo") : k < i
        /\ \A i \in SubmitsOfMethod("approve") : log[i].call.amount = op.amount
        /\ \A i \in SubmitsOfMethod("signMemo") :
               \E k \in SubmitsOfMethod("approve") : k < i
        /\ (pc = "done" /\ Proceeds) =>
               /\ outcome = "returned"
               /\ Cardinality(MemoSubmits) = 1
               /\ Cardinality(SubmitsOfMethod("signMemo")) = 1
               /\ Cardinality(SubmitsOfMethod("approve")) = 1
               /\ Cardinality(Submits) = 3

\* pay(10) has returned on a job that holds a memo leading to TRANSACTION
C23_Witness ==
    /\ Called("pay") /\ op.amount = 10 /\ HasMemoWith("TRANSACTION")
    /\ pc = "done" /\ outcome = "returned"
    /\ Cardinality(MemoSubmits) = 1

-----------------------------------------------------------------------------
(* C24 *)

\* the matched memo leads to TRANSACTION, is a message and carries a
\* close-job-and-withdraw payload
CloseJobMemo ==
    /\ HasMatched(op.memo_id, "TRANSACTION", "MESSAGE")
    /\ LET e == structured_content(job.memos[op.memo_id]) IN
           /\ e.ok /\ e.type = "close_job_and_withdraw"
           /\ ~e.list /\ e.items[1].shape = "CloseJobAndWithdrawPayload"

-----------------------------------------------------------------------------
(* C25 *)

\* the matched memo leads to TRANSACTION, is a payable request and carries a
\* close-partial-position payload of ClosePositionPayload records
ClosePartialMemo ==
    /\ HasMatched(op.memo_id, "TRANSACTION", "PAYABLE_REQUEST")
    /\ LET e == structured_content(job.memos[op.memo_id]) IN
           /\ e.ok /\ e.type = "close_partial_position"
           /\ \A i \in DOMAIN e.items : e.items[i].shape = "ClosePositionPayload"

\* the amounts of the records the matched memo carries
MemoAmounts ==
    LET e == structured_content(job.memos[op.memo_id]) IN
    { e.items[i].amount : i \in DOMAIN e.items }

\* C25: respond_close_partial_position on a payable-request memo to
\* TRANSACTION that carries a close-partial-position payload signs that memo
\* and echoes the memo's own amount: on accept with a positive amount it
\* approves an allowance of exactly that amount and then submits
\* signMemo(true); on reject it submits only signMemo(false).
C25_RespondClosePartial ==
    (Called("respond_close_partial_position") /\ ClosePartialMemo) =>
        /\ outcome \in {"none", "returned"}
        /\ \A i \in SubmitsOfMethod("signMemo") :
               /\ log[i].call.memo_id = op.memo_id
               /\ log[i].call.flag = op.accept
               /\ (op.accept /\ \E a \in MemoAmounts : a > 0) =>
                      \E k \in SubmitsOfMethod("approve") : k < i
        /\ \A i \in SubmitsOfMethod("approve") :
               op.accept /\ log[i].call.amount > 0 /\ log[i].call.amount \in MemoAmounts
        /\ Submits \subseteq SubmitsOfMethod("signMemo") \cup SubmitsOfMethod("approve")
        /\ pc = "done" => Cardinality(SubmitsOfMethod("signMemo")) = 1

-----------------------------------------------------------------------------
(* C26 *)

\* the attempts to submit call c, those that raised included
SubmitAttemptsOf(c) ==
    { i \in DOMAIN log : log[i].ev \in {"submit", "submit_raise"} /\ log[i].left = c }

\* C26: the bounded retry loop wraps the submit as well as the confirm: an
\* exception raised by the submit step of a call is a retryable failure, so a
\* call fails with the exception of its submit step only when that was its
\* third attempt.
C26_SubmitExceptionRetried ==
    (pc = "done" /\ outcome = "Exception" /\ log[Len(log)].ev = "submit_raise") =>
        Cardinality(SubmitAttemptsOf(log[Len(log)].left)) = MaxRetries

-----------------------------------------------------------------------------
(* C27 *)

\* log entry i is a failed attempt of a retry loop
FailedAttemptAt(i) ==
    \/ log[i].ev \in {"submit_raise", "confirm_raise", "no_job_id"}
    \/ log[i].ev = "confirm" /\ log[i].status # StatusOk

\* the delays waited after a failed attempt
RetrySleeps ==
    { i \in DOMAIN log : log[i].ev = "sleep" /\ i > 1 /\ FailedAttemptAt(i - 1) }

\* two delays of the same retry loop: the same call, and both after a failed
\* submit or both after a failed confirm
SameLoop(i, k) ==
    /\ log[i - 1].left = log[k - 1].left
    /\ log[i - 1].ev = "submit_raise" <=> log[k - 1].ev = "submit_raise"

\* C27: in every retry loop, the confirm loop of job creation included, the
\* delay waited after a failed attempt is strictly longer than the delay waited
\* after the failed attempt before it, and no delay is waited after the final
\* failed attempt, before the terminal failure is raised.
C27_DelaysIncrease ==
    /\ \A i \in RetrySleeps : \A k \in RetrySleeps :
           (i < k /\ SameLoop(i, k)) => log[i].d < log[k].d
    /\ (outcome = "Exception" /\ (pc = "done" \/ ipc = "done")) =>
           log[Len(log)].ev # "sleep"

-----------------------------------------------------------------------------
(* C28 *)

\* C28: in every operation that submits an allowance approval followed by a
\* dependent call, the dependent call is submitted only after the approval was
\* confirmed with status 200 and a settle delay has been waited between the
\* two.
C28_SettleDelayAfterApproval ==
    \A i \in SubmitsOfMethod("approve") : \A k \in Submits :
        i < k =>
            /\ \E c \in i..k : log[c].ev = "confirm" /\ log[c].status = StatusOk
                               /\ log[c].call.method = "approve"
            /\ \E s \in i..k : log[s].ev = "sleep" /\ log[s].d >= SettleDelay

-----------------------------------------------------------------------------
(* C29 *)

\* the value of each member of ACPJobPhase: its place on the phase graph
PhaseRank(p) ==
    CASE p = "REQUEST" -> 0
      [] p = "NEGOTIATION" -> 1
      [] p = "TRANSACTION" -> 2
      [] p = "EVALUATION" -> 3
      [] p = "COMPLETED" -> 4
      [] p = "REJECTED" -> 5
      [] p = "EXPIRED" -> 6

\* C29: a job's phase only advances along the phase graph: on every job
\* snapshot, the memo an operation that passed its guard creates, and the memo
\* it approves, carries a next_phase that is not earlier than the job's
\* current phase.
C29_PhaseNeverGoesBack ==
    \A i \in Submits :
        /\ log[i].call.method \in MemoCreatingMethods =>
               PhaseRank(log[i].call.next_phase) >= PhaseRank(job.phase)
        /\ (log[i].call.method = "signMemo" /\ log[i].call.flag) =>
               PhaseRank(job.memos[log[i].call.memo_id].next_phase)
                   >= PhaseRank(job.phase)

-----------------------------------------------------------------------------
(* C30 *)

\* C30: Job and Memo objects are immutable snapshots: no step of a Job
\* operation (its guard, its submits, its confirms and retries, its failure)
\* changes the job's id, phase, price or memo sequence, or any memo's fields or
\* decoded envelope.
C30_SnapshotsImmutable ==
    [][/\ job' = job
       /\ \A i \in DOMAIN job.memos :
              structured_content(job'.memos[i]) = structured_content(job.memos[i])]_vars

\* an operation failed in the pipeline after its createMemo was submitted
C30_Witness ==
    /\ pc = "done" /\ outcome = "Exception" /\ MemoSubmits # {}
    /\ Cardinality(SubmitsOfMethod("approve")) = 1

-----------------------------------------------------------------------------
(* C31 *)

\* C31: get_data_as(T) returns no data when the envelope is absent; one value
\* of T, or no data when validation fails, when the envelope's data is a single
\* record; and when the data is a list of n entries, a list of n entries each
\* validated on its own (no value for an entry that fails), for every n,
\* n = 1 included.
C31_TypedAccessor ==
    (built # NoMemo /\ read_as # "-") =>
        LET sc == structured_content(built) IN
        /\ ~sc.ok => read = NoData
        /\ (sc.ok /\ ~sc.list) =>
               read = IF Validates(sc.items[1], read_as)
                      THEN [form |-> "one", items |-> <<sc.items[1]>>]
                      ELSE NoData
        /\ (sc.ok /\ sc.list) =>
               /\ read.form = "list"
               /\ DOMAIN read.items = DOMAIN sc.items
               /\ \A i \in DOMAIN sc.items :
                      read.items[i] = try_validate_model(sc.items[i], read_as)

-----------------------------------------------------------------------------
(* C32 *)

\* the log entries of initiate_job: the createJob submits, the confirm attempts
\* that returned 200 with the job id in the receipt, the submits and the
\* confirmations of a call of the tail, the notifications
ICreateJobSubmits == { i \in DOMAIN log : log[i].left = 0 /\ log[i].ev = "submit" }
IJobIds ==
    { i \in IConfirmed : i = Len(log) \/ log[i + 1].ev # "no_job_id" }
ITailSubmits(method) ==
    { i \in DOMAIN log : /\ log[i].left > 0
                         /\ log[i].ev \in {"submit", "submit_raise"}
                         /\ log[i].call.method = method }
ITailConfirmed(method) ==
    { i \in DOMAIN log : /\ log[i].left > 0
                         /\ log[i].ev = "confirm" /\ log[i].status = StatusOk
                         /\ log[i].call.method = method }
INotifications == { i \in DOMAIN log : log[i].ev \in {"notify", "notify_raise"} }

\* each entry of `later` has an entry of `earlier` before it
Precedes(earlier, later) == \A i \in later : \E k \in earlier : k < i

\* C32: initiate_job does its steps in the order createJob submit, confirm with
\* the job id extracted, setBudgetWithPaymentToken, createMemo (MESSAGE, next
\* phase NEGOTIATION), notification of the backend; a step is made only after
\* every earlier one succeeded, each of the last three at most once, and
\* without a job id (every confirm attempt failing included) neither the budget
\* nor the memo is submitted.
C32_InitiateOrder ==
    /\ Precedes(ICreateJobSubmits, IJobIds)
    /\ Precedes(IJobIds, ITailSubmits("setBudgetWithPaymentToken"))
    /\ Precedes(ITailConfirmed("setBudgetWithPaymentToken"), ITailSubmits("createMemo"))
    /\ Precedes(ITailConfirmed("createMemo"), INotifications)
    /\ \A i \in ITailSubmits("createMemo") :
           log[i].call.memo_type = "MESSAGE" /\ log[i].call.next_phase = "NEGOTIATION"
    /\ \A i \in DOMAIN log :
           log[i].left > 0 =>
               log[i].call.method \in {"-", "setBudgetWithPaymentToken", "createMemo"}
    /\ Cardinality(ITailSubmits("setBudgetWithPaymentToken")) <= 1
    /\ Cardinality(ITailSubmits("createMemo")) <= 1
    /\ Cardinality(INotifications) <= 1
    /\ IJobIds = {} =>
           ITailSubmits("setBudgetWithPaymentToken") \cup ITailSubmits("createMemo") = {}

\* initiate_job ran to its end: the job id was extracted, the budget and the
\* first memo were confirmed and the backend was notified
C32_Witness ==
    /\ ipc = "done" /\ outcome = "returned"
    /\ IJobIds # {}
    /\ ITailConfirmed("setBudgetWithPaymentToken") # {}
    /\ ITailConfirmed("createMemo") # {}
    /\ \E i \in INotifications : log[i].ev = "notify"

-----------------------------------------------------------------------------
(* C33 *)

\* the memo a confirmed createMemo / createPayableMemo call leaves on the job,
\* as the client builds it from the backend's data: the type, the next phase
\* and the content are the arguments of the call
MemoOfCall(c, id) == ACPMemo(id, c.memo_type, c.next_phase, c.content)

\* the job snapshot fetched after the call was confirmed: memo ids increase
Refreshed(j, c) ==
    [j EXCEPT !.memos = Append(@, MemoOfCall(c, Len(@) + 1))]

\* the memo-creating submits of the call in progress that were confirmed
ConfirmedMemoSubmits ==
    { i \in MemoSubmits : /\ i < Len(log)
                          /\ log[i + 1].ev = "confirm"
                          /\ log[i + 1].status = StatusOk }

\* C33: job closure can complete: the memo respond_close_job(accept=true)
\* creates passes the guard of confirm_job_closure: on the refreshed job,
\* confirm_job_closure(that memo's id, accept) raises nothing and submits
\* signMemo for it.
C33_ClosureCompletes ==
    (Called("respond_close_job") /\ op.accept) =>
        \A i \in ConfirmedMemoSubmits : \A accept \in BOOLEAN :
            LET j == Refreshed(job, log[i].call)
                r == confirm_job_closure(j, Len(j.memos), accept)
            IN  /\ r.err = ""
                /\ r.plan = <<Call(CM_sign_memo(Len(j.memos), accept), TRUE)>>

-----------------------------------------------------------------------------
(* C34 *)

\* the memo-creating funds operations that have a responding operation
PairedOps ==
    {"open_position", "close_partial_position", "position_fulfilled",
     "unfulfilled_position", "close_job", "request_close_position",
     "response_request_close_position"}

\* the responding operation paired with the operation `name`, called for the
\* memo `memo_id` of the job j
Responder(name, j, memo_id, accept) ==
    CASE name = "open_position" -> respond_open_position(j, memo_id, accept)
      [] name = "close_partial_position" ->
             respond_close_partial_position(j, memo_id, accept)
      [] name = "position_fulfilled" -> respond_position_fulfilled(j, memo_id, accept)
      [] name = "unfulfilled_position" ->
             respond_unfulfilled_position(j, memo_id, accept)
      [] name = "close_job" ->
             respond_close_job(j, memo_id, accept, <<Rec("PositionFulfilledPayload", 10)>>)
      [] name = "request_close_position" ->
             response_request_close_position(j, memo_id, accept,
                                             Rec("ClosePositionPayload", 10))
      [] name = "response_request_close_position" ->
             confirm_close_position(j, memo_id, accept)

\* C34: the memo each memo-creating funds operation creates passes the guard
\* of its paired responding operation (memo kind, next_phase TRANSACTION and
\* payload kind all match): called on the refreshed job for that memo, with
\* either answer, the responder raises nothing and signs that memo.
C34_PairsMatch ==
    (pc # "idle" /\ op.name \in PairedOps) =>
        \A i \in ConfirmedMemoSubmits : \A accept \in BOOLEAN :
            LET j == Refreshed(job, log[i].call)
                r == Responder(op.name, j, Len(j.memos), accept)
            IN  /\ r.err = ""
                /\ \E k \in DOMAIN r.plan :
                       /\ r.plan[k].k = "call"
                       /\ r.plan[k].call = CM_sign_memo(Len(j.memos), accept)

\* response_request_close_position accepted a close request and its transfer
\* memo was confirmed, on a job that already held the request memo that
\* request_close_position creates
C34_Witness ==
    /\ Called("response_request_close_position") /\ op.accept
    /\ ConfirmedMemoSubmits # {}
    /\ \E m \in DOMAIN job.memos :
           /\ job.memos[m].id = op.memo_id
           /\ job.memos[m] =
                  MemoOfCall(request_close_position(
                                 job, Rec("RequestClosePositionPayload", 0)).plan[1].call,
                             op.memo_id)

-----------------------------------------------------------------------------
(* C35 *)

\* the pipeline calls that have confirmed at least once or sent their
\* transaction (create_job, which initiate_job confirms itself, has left = 0)
PipelineCalls ==
    { log[i].left : i \in { k \in DOMAIN log :
                               /\ log[k].left > 0
                               /\ log[k].ev \in {"submit", "confirm", "confirm_raise"} } }

\* C35: retries never duplicate a transaction: each pipeline call (create_memo,
\* sign_memo, create_payable_memo, approve_allowance, set_budget...) sends its
\* transaction exactly once, before its first confirm attempt, however many
\* confirm attempts (1 to 3) follow and whether it succeeds or fails.
C35_SubmitsOnce ==
    \A c \in PipelineCalls :
        /\ Cardinality(SubmitsOf(c)) = 1
        /\ Cardinality(AttemptsOf(c)) <= MaxRetries
        /\ \A s \in SubmitsOf(c) : \A a \in AttemptsOf(c) : s < a
        /\ (pc = "done" \/ Len(plan) < c) => AttemptsOf(c) # {}

\* a call failed for good on its third confirm attempt, and another call of the
\* same operation succeeded before it on a later attempt than the first
C35_Witness ==
    /\ pc = "done" /\ outcome = "Exception"
    /\ Cardinality(AttemptsOf(RaisedCall)) = MaxRetries
    /\ Cardinality(SubmitsOf(RaisedCall)) = 1
    /\ \E c \in PipelineCalls :
           /\ c # RaisedCall
           /\ SucceededOf(c) # {}
           /\ Cardinality(AttemptsOf(c)) > 1

-----------------------------------------------------------------------------
(* C36 *)

\* the log entries at which a pipeline call failed for good: _sign_transaction
\* raised, or the confirm attempt that used up the retries failed
TerminalFailures ==
    { i \in DOMAIN log :
        /\ log[i].left > 0
        /\ \/ log[i].ev = "submit_raise"
           \/ /\ i \in FailedOf(log[i].left)
              /\ Cardinality({ k \in FailedOf(log[i].left) : k <= i }) = MaxRetries }

\* C36: in every multi-step operation (respond, pay, transfer_funds,
\* respond_close_job) a terminal failure of one step propagates to the caller
\* as an exception and no later step of the operation is submitted: the
\* failure is the last thing the operation did.
C36_FailureStopsOperation ==
    \A i \in TerminalFailures :
        /\ pc = "done" /\ outcome = "Exception" /\ plan = <<>>
        /\ i = Len(log)
        /\ \A k \in DOMAIN log : log[k].left >= log[i].left

\* respond_close_job(accept) failed for good in its first step, signMemo, with
\* the approve and the transfer still to do
C36_Witness ==
    /\ Called("respond_close_job") /\ op.accept /\ op.npos > 0
    /\ \E i \in TerminalFailures :
           /\ log[i].call.method = "signMemo"
           /\ log[i].left = 3
    /\ SubmitsOfMethod("approve") \cup SubmitsOfMethod("createPayableMemo") = {}

-----------------------------------------------------------------------------
(* C37 *)

\* the calls of _sign_transaction for a contract method, those that raised too
SendsOf(methods) ==
    { i \in DOMAIN log : /\ log[i].ev \in {"submit", "submit_raise"}
                         /\ log[i].call.method \in methods }

\* the signMemo of the call in progress was confirmed with status 200
SignConfirmed ==
    \E i \in DOMAIN log : /\ log[i].ev = "confirm" /\ log[i].status = StatusOk
                          /\ log[i].call.method = "signMemo"

-----------------------------------------------------------------------------
(* client.py: the ingress of new-task events.  The socket client calls
   _on_new_task for the events in the order they arrive; each call starts a
   thread that runs handle_new_task, which builds the job snapshot and calls
   the dispatcher's on_new_task (the producers above).  Event p is the p-th
   to arrive. *)

\* _on_new_task(data): threading.Thread(target=self.handle_new_task,
\* args=(data,)).start(), for the events in their order of arrival
N_OnNewTask(p) ==
    /\ ppc[p] = "arriving"
    /\ \A q \in Producers : q < p => ppc[q] # "arriving"
    /\ ppc' = [ppc EXCEPT ![p] = "thread"]
    /\ UNCHANGED <<use_thread_lock, job_queue, job_event, lock, wpc, popped>>
    /\ UNCHANGED <<jobVars, initVars, memoVars, runVars>>

\* handle_new_task, in its own thread: the memos and the job are built and
\* self.on_new_task(job, memo_to_sign) is called
N_HandleNewTask(p) ==
    /\ ppc[p] = "thread"
    /\ ppc' = [ppc EXCEPT ![p] = "start"]
    /\ UNCHANGED <<use_thread_lock, job_queue, job_event, lock, wpc, popped>>
    /\ UNCHANGED <<jobVars, initVars, memoVars, runVars>>

InitIngress ==
    /\ use_thread_lock \in BOOLEAN
    /\ job_queue = <<>>
    /\ job_event = FALSE
    /\ lock = Free
    /\ ppc = [p \in Producers |-> "arriving"]
    /\ wpc = "wait"
    /\ popped = <<>>
    /\ job = ACPJob("REQUEST", 10, <<>>)
    /\ IdleCall
    /\ IdleInitiate
    /\ IdleMemo
    /\ IdleRuntime

NextIngress ==
    \/ \E p \in Producers : N_OnNewTask(p)
    \/ \E p \in Producers : N_HandleNewTask(p)
    \/ \E p \in Producers : Producer(p)
    \/ Worker

SpecIngress == InitIngress /\ [][NextIngress]_vars

-----------------------------------------------------------------------------
(* C38 *)

\* the entries appended to job_queue so far, in the order of their append
\* (nothing is put back in this dispatcher)
AppendedSoFar == popped \o job_queue

\* C38: event ingress preserves the order of arrival: of two new-task events
\* of a job, the handler on_new_task runs for the earlier one first, so the
\* queue holds the older snapshot ahead of the newer one.
C38_IngressPreservesOrder ==
    \A i \in DOMAIN AppendedSoFar : \A k \in DOMAIN AppendedSoFar :
        i < k => AppendedSoFar[i] < AppendedSoFar[k]

-----------------------------------------------------------------------------
(* yield_finder/buyer.py and examples/acp_base/self_evaluation/buyer.py: the
   buyer dispatcher.  Realtime events and the periodic poller each enqueue a
   snapshot of the job as the backend holds it at that moment (`job` is the
   backend's job here); the intake loop pops the snapshots and runs
   process_job on each in its own thread of control. *)

BuyerDispatchers == {"yield_buyer", "self_buyer"}

\* the buyer's first memo, and the memo the seller's respond creates
NegotiationMemo == ACPMemo(1, "MESSAGE", "NEGOTIATION", Text)

\* seller_accepted(job): a memo with next_phase NEGOTIATION has status
\* APPROVED.  The memo records here carry no status: the seller's signMemo is
\* what approves the memo and takes the job out of REQUEST.
seller_accepted(j) ==
    /\ j.phase # "REQUEST"
    /\ \E i \in DOMAIN j.memos : j.memos[i].next_phase = "NEGOTIATION"

\* next((m for m in job.memos if m.next_phase == TRANSACTION), None) is found
tx_memo(j) == \E i \in DOMAIN j.memos : j.memos[i].next_phase = "TRANSACTION"

\* process_job: whether it calls job.pay for the snapshot j
CallsPay(d, j) ==
    IF d = "yield_buyer"
    THEN /\ j.phase \in {"REQUEST", "NEGOTIATION"}
         /\ seller_accepted(j)
         /\ tx_memo(j)
         /\ j.price > 0
    ELSE /\ j.phase = "NEGOTIATION"
         /\ tx_memo(j)

\* the seller signs the negotiation memo: the job enters NEGOTIATION
B_SellerSigns ==
    /\ job.phase = "REQUEST"
    /\ job' = [job EXCEPT !.phase = "NEGOTIATION"]
    /\ UNCHANGED <<pc, op, plan, txpc, retries, log, result, outcome>>
    /\ UNCHANGED <<dispVars, initVars, memoVars, runVars>>

\* the seller's respond_to_job creates the memo to TRANSACTION
B_SellerCreatesMemo ==
    /\ job.phase = "NEGOTIATION" /\ ~tx_memo(job)
    /\ job' = Refreshed(job, CM_create_memo(Text, "MESSAGE", FALSE, "TRANSACTION"))
    /\ UNCHANGED <<pc, op, plan, txpc, retries, log, result, outcome>>
    /\ UNCHANGED <<dispVars, initVars, memoVars, runVars>>

\* a realtime event is built from the job, or poll_job_loop calls
\* get_job_by_onchain_id: the snapshot p is taken; what process_job will do
\* with it is fixed from here on
B_Snapshot(p) ==
    /\ ppc[p] = "fetch"
    /\ ppc' = [ppc EXCEPT ![p] = "start"]
    /\ kind' = [kind EXCEPT ![p] = IF CallsPay(dispatcher, job) THEN "pay" ELSE "other"]
    /\ UNCHANGED <<use_thread_lock, job_queue, job_event, lock, wpc, popped>>
    /\ UNCHANGED <<dispatcher, handled, run_state, pass_start>>
    /\ UNCHANGED <<jobVars, initVars, memoVars>>

\* process_job(job, memo_to_sign) in the intake loop: job.pay(price) is called,
\* or the function returns at once
B_ProcessJob ==
    /\ wpc = "spawn"
    /\ handled' = [handled EXCEPT ![Current] = @ + 1]
    /\ IF kind[Current] = "pay"
       THEN /\ run_state' = [run_state EXCEPT ![Current] = "running"]
            /\ wpc' = "inline"
       ELSE /\ run_state' = run_state
            /\ wpc' = "pop"
    /\ UNCHANGED <<use_thread_lock, job_queue, job_event, lock, ppc, popped>>
    /\ UNCHANGED <<dispatcher, kind, pass_start>>
    /\ UNCHANGED <<jobVars, initVars, memoVars>>

\* job.pay returns: approve, signMemo and createMemo (to EVALUATION) were
\* confirmed; the job is in TRANSACTION from here on
B_PayReturns ==
    /\ wpc = "inline"
    /\ job' = IF job.phase = "TRANSACTION" THEN job
              ELSE [Refreshed(job, CM_create_memo(Text, "MESSAGE", FALSE, "EVALUATION"))
                       EXCEPT !.phase = "TRANSACTION"]
    /\ run_state' = [run_state EXCEPT ![Current] = "returned"]
    /\ wpc' = "pop"
    /\ UNCHANGED <<pc, op, plan, txpc, retries, log, result, outcome>>
    /\ UNCHANGED <<use_thread_lock, job_queue, job_event, lock, ppc, popped>>
    /\ UNCHANGED <<dispatcher, kind, handled, pass_start>>
    /\ UNCHANGED <<initVars, memoVars>>

\* job.pay raises; `except Exception` prints it and the loop goes on
B_PayRaises ==
    /\ wpc = "inline"
    /\ run_state' = [run_state EXCEPT ![Current] = "raised"]
    /\ wpc' = "pop"
    /\ UNCHANGED <<use_thread_lock, job_queue, job_event, lock, ppc, popped>>
    /\ UNCHANGED <<dispatcher, kind, handled, pass_start>>
    /\ UNCHANGED <<jobVars, initVars, memoVars>>

InitBuyer ==
    /\ use_thread_lock \in BOOLEAN
    /\ job_queue = <<>>
    /\ job_event = FALSE
    /\ lock = Free
    /\ ppc = [p \in Producers |-> "fetch"]
    /\ wpc = "wait"
    /\ popped = <<>>
    /\ job = ACPJob("REQUEST", 10, <<NegotiationMemo>>)
    /\ pc = "idle"
    /\ op = NoOp
    /\ plan = <<>>
    /\ txpc = "submit"
    /\ retries = 0
    /\ log = <<>>
    /\ result = NoResult
    /\ outcome = "none"
    /\ IdleInitiate
    /\ IdleMemo
    /\ dispatcher \in BuyerDispatchers
    /\ kind = [p \in Producers |-> "other"]
    /\ handled = [p \in Producers |-> 0]
    /\ run_state = [p \in Producers |-> "none"]
    /\ pass_start = 0

NextBuyer ==
    \/ B_SellerSigns
    \/ B_SellerCreatesMemo
    \/ \E p \in Producers : B_Snapshot(p)
    \/ \E p \in Producers : Producer(p)
    \/ R_Wait
    \/ W_AcquirePop
    \/ W_Pop
    \/ W_ReleasePop
    \/ B_ProcessJob
    \/ B_PayReturns
    \/ B_PayRaises
    \/ W_AcquireCheck
    \/ W_CheckEmpty
    \/ W_Clear
    \/ W_EndCheck

SpecBuyer == InitBuyer /\ [][NextBuyer]_vars

-----------------------------------------------------------------------------
(* C39 *)

\* the snapshots for which process_job called job.pay
PayCalls == { p \in Producers : run_state[p] # "none" }

\* C39: the buyer dispatcher pays a job at most once: however the realtime
\* events and the poller interleave, and with snapshots taken before the
\* payment took effect still in the queue, the worker calls pay for the job at
\* most one time.
C39_PaysAtMostOnce == Cardinality(PayCalls) <= 1

=============================================================================
